---- MODULE Spec2Model ----
(***************************************************************************)
(* NeriaAI agents: the validation agent's three validators and consensus   *)
(* rule, the validation -> capsule message flow, the query router's        *)
(* correlation table (agent_to_user_mapping), and the capsule agent's      *)
(* store: its files, index, stats and ids, in one process and in two.      *)
(*                                                                         *)
(* Scores are integers in hundredths (1.0 = 100).  A reasoning text enters *)
(* the validators only through the quantities their checks compute on it   *)
(* (length, keyword counts, regex hits); a text is the record of those     *)
(* quantities.                                                             *)
(***************************************************************************)
EXTENDS Integers, Sequences, FiniteSets, Bags, TLC

VARIABLES
    chain,                  \* validate_reasoning: the chain last validated
    result,                 \* validate_reasoning: the value it returned
    net,                    \* bag of messages sent to agents and not yet handled
    capsule_configured,     \* validation agent: CAPSULE_AGENT_ADDRESS != ""
    capsule_files,          \* capsule agent: documents in CAPSULE_STORAGE_DIR
    capsule_stats,          \* capsule agent: the stats document
    faiss_index,            \* capsule agent: vectors in the FAISS index, -1 when there is none
    capsule_metadata,       \* capsule agent: the metadata list kept beside the index
    inbox,                  \* chat messages delivered to parties outside the repository
    val_log,                \* history: one entry per run of handle_validation_request
    cap_log,                \* history: one entry per run of handle_capsule_request
    submitted,              \* history: chains submitted to the validation agent
    handled,                \* history: ChatMessages handled by the validation and capsule agents
    agent_to_user_mapping,  \* router: worker address -> waiting user
    active_sessions,        \* router: session id -> session data
    running,                \* router: FALSE after the shutdown event
    agent_addresses,        \* router: AGENT_ADDRESSES, "" for a worker that is not configured
    queries,                \* history: messages users have sent to the router
    dispatch_log,           \* history: dispatches sent by route_to_agent, in order
    forward_log,            \* history: responses forwarded by the router
    miss_log,               \* history: responses dropped by the router
    overlapped,             \* history: workers that had two requests in flight at once
    stats_file,             \* capsule agent: capsule_stats.json
    index_file,             \* capsule agent: vectors in capsules.index, -1 when the file is absent
    metadata_file,          \* capsule agent: capsules_metadata.json
    id_args,                \* generate_capsule_id: two (query, reasoning_type, instant) triples
    id_out,                 \* generate_capsule_id: the two ids returned
    proc,                   \* retrieve_capsule in two processes: position and local copy
    search_args,            \* search_knowledge_capsules: the store, the query and top_k
    search_out,             \* search_knowledge_capsules: the list returned
    research_log,           \* history: one entry per run of the research agent's handle_chat_message
    reasoning_cfg,          \* reasoning agent: VALIDATION_AGENT_ADDRESS and whether MeTTa is up
    reasoning_sessions,     \* reasoning agent: the keys of active_sessions
    reason_log,             \* history: one entry per chain the reasoning agent generated
    asi_one_api_key,        \* router: ASI_ONE_API_KEY, "" when it is not configured
    classify_log            \* history: one entry per query the router classified

vars == <<chain, result, net, capsule_configured, capsule_files,
          capsule_stats, faiss_index, capsule_metadata, inbox, val_log, cap_log, submitted, handled,
          agent_to_user_mapping, active_sessions, running, agent_addresses,
          queries, dispatch_log, forward_log, miss_log, overlapped,
          stats_file, index_file, metadata_file, id_args, id_out, proc,
          search_args, search_out, research_log, reasoning_cfg, reasoning_sessions, reason_log,
          asi_one_api_key, classify_log>>

consensus_vars == <<chain, result>>
pipeline_vars == <<net, capsule_configured, capsule_files, capsule_stats,
                   faiss_index, capsule_metadata, inbox, val_log, cap_log, submitted,
                   handled>>
router_vars == <<agent_to_user_mapping, active_sessions, running, agent_addresses,
                 queries, dispatch_log, forward_log, miss_log, overlapped,
                 asi_one_api_key, classify_log>>
disk_vars == <<stats_file, index_file, metadata_file>>
store_vars == <<id_args, id_out, proc>>
search_vars == <<search_args, search_out, research_log>>
reasoning_vars == <<reasoning_cfg, reasoning_sessions, reason_log>>

----------------------------------------------------------------------------
(* Bounds *)

MaxKeywords == 2        \* structure keywords counted in a text: 0..MaxKeywords
MaxSubmitted == 2       \* chains submitted to the validation agent
MaxHandled == 5         \* ChatMessages handled by the validation and capsule agents
MaxQueries == 2         \* user queries sent to the router
MaxLen == 2             \* characters in a query or reasoning type given to generate_capsule_id
MaxRequests == 3        \* requests a client sends to the capsule agent
MaxRetrievals == 2      \* calls of retrieve_capsule in each of the two processes
MaxQueryLen == 5        \* characters in a query given to search_knowledge_capsules
MaxStored == 2          \* capsule files in the directory search_knowledge_capsules reads
MaxAsked == 2           \* messages sent to the reasoning agent
MaxClassified == 2      \* queries the router classifies
MaxFlows == 1           \* user queries that enter the whole system

None == "none"

----------------------------------------------------------------------------
(* ValidationStatus and ValidatorDecision *)

APPROVE == "approve"
REJECT == "reject"
NEEDS_REVISION == "needs_revision"
ValidatorDecision == {APPROVE, REJECT, NEEDS_REVISION}

VERIFIED == "verified"
REJECTED == "rejected"
REVISION_REQUESTED == "revision_requested"

Max(a, b) == IF a >= b THEN a ELSE b
Min(a, b) == IF a <= b THEN a ELSE b

KnownReasoningTypes == {"deductive", "inductive", "causal", "comparative", "abductive"}

----------------------------------------------------------------------------
(* The three validators.  Each returns [decision, issues, score].          *)

\* a variant that approves on the score alone
Decide_ScoreOnly(score, issues, approveFeedback) ==
    IF score >= 80
    THEN [decision |-> APPROVE, issues |-> {approveFeedback}, score |-> score,
          flags |-> issues]
    ELSE IF score >= 60
    THEN [decision |-> NEEDS_REVISION, issues |-> issues, score |-> score,
          flags |-> issues]
    ELSE [decision |-> REJECT, issues |-> issues, score |-> score, flags |-> issues]

\* the if / elif / else that ends each validate.  issues is the feedback returned;
\* flags is history: the checks that were triggered, whatever the decision
Decide(score, issues, approveFeedback) ==
    IF score >= 80 /\ issues = {}
    THEN [decision |-> APPROVE, issues |-> {approveFeedback}, score |-> score,
          flags |-> issues]
    ELSE IF score >= 60
    THEN [decision |-> NEEDS_REVISION, issues |-> issues, score |-> score,
          flags |-> issues]
    ELSE [decision |-> REJECT, issues |-> issues, score |-> score, flags |-> issues]

LogicValidate(c) ==
    LET t == c.reasoning_steps
        brief == t.len < 50
        unstructured == t.found_keywords < 2
        contradiction == t.contradiction
        typeMismatch == c.reasoning_type \in KnownReasoningTypes /\ ~c.type_found
        noSteps == ~t.has_numbers /\ ~t.has_bullets
        issues == (IF brief THEN {"too_brief"} ELSE {})
                  \cup (IF unstructured THEN {"no_structure"} ELSE {})
                  \cup (IF contradiction THEN {"contradiction"} ELSE {})
                  \cup (IF typeMismatch THEN {"type_mismatch"} ELSE {})
                  \cup (IF noSteps THEN {"no_steps"} ELSE {})
        score == 100 - (IF brief THEN 30 ELSE 0)
                     - (IF unstructured THEN 20 ELSE 0)
                     - (IF contradiction THEN 25 ELSE 0)
                     - (IF typeMismatch THEN 20 ELSE 0)
                     - (IF noSteps THEN 15 ELSE 0)
    IN  Decide(Max(0, score), issues, "logic_ok")

\* a variant that keeps the bonus for references above 1.0
SourceValidate_NoUpperClamp(c) ==
    LET t == c.reasoning_steps
        hasMetta == c.metta # None
        noContext == ~c.has_research_context /\ ~hasMetta
        mettaUnused == hasMetta /\ c.metta = "empty"
        unsupported == t.has_claims /\ ~t.has_evidence
        hedging == t.hedges > 3
        highConf == c.confidence > 80 /\ ~c.has_research_context /\ ~hasMetta
        issues == (IF noContext THEN {"no_context"} ELSE {})
                  \cup (IF mettaUnused THEN {"metta_unused"} ELSE {})
                  \cup (IF unsupported THEN {"unsupported_claims"} ELSE {})
                  \cup (IF hedging THEN {"hedging"} ELSE {})
                  \cup (IF highConf THEN {"high_confidence"} ELSE {})
        score == 100 - (IF noContext THEN 30 ELSE 0)
                     - (IF mettaUnused THEN 20 ELSE 0)
                     - (IF unsupported THEN 25 ELSE 0)
                     - (IF hedging THEN 20 ELSE 0)
                     - (IF highConf THEN 30 ELSE 0)
                     + (IF t.has_references THEN 10 ELSE 0)
    IN  Decide(Max(0, score), issues, "source_ok")

SourceValidate(c) ==
    LET t == c.reasoning_steps
        hasMetta == c.metta # None
        noContext == ~c.has_research_context /\ ~hasMetta
        mettaUnused == hasMetta /\ c.metta = "empty"
        unsupported == t.has_claims /\ ~t.has_evidence
        hedging == t.hedges > 3
        highConf == c.confidence > 80 /\ ~c.has_research_context /\ ~hasMetta
        issues == (IF noContext THEN {"no_context"} ELSE {})
                  \cup (IF mettaUnused THEN {"metta_unused"} ELSE {})
                  \cup (IF unsupported THEN {"unsupported_claims"} ELSE {})
                  \cup (IF hedging THEN {"hedging"} ELSE {})
                  \cup (IF highConf THEN {"high_confidence"} ELSE {})
        score == 100 - (IF noContext THEN 30 ELSE 0)
                     - (IF mettaUnused THEN 20 ELSE 0)
                     - (IF unsupported THEN 25 ELSE 0)
                     - (IF hedging THEN 20 ELSE 0)
                     - (IF highConf THEN 30 ELSE 0)
                     + (IF t.has_references THEN 10 ELSE 0)
    IN  Decide(Max(0, Min(100, score)), issues, "source_ok")

CompletenessValidate(c) ==
    LET t == c.reasoning_steps
        noQuery == c.query.len = 0
        lowOverlap == ~noQuery /\ c.overlap_low
        hasConcepts == c.key_concepts > 0
        \* coverage = concepts_mentioned / len(key_concepts), compared with 0.5 and 0.8
        lowCoverage == hasConcepts /\ 10 * c.concepts_mentioned < 5 * c.key_concepts
        midCoverage == hasConcepts /\ ~lowCoverage
                       /\ 10 * c.concepts_mentioned < 8 * c.key_concepts
        noConclusion == ~t.has_conclusion
        short == t.len < 200
        veryShort == ~short /\ t.len < 100
        whyUnanswered == c.query.why /\ ~t.has_explanation
        howUnanswered == c.query.how /\ ~t.has_process
        fewSections == t.section_count < 2
        issues == (IF noQuery THEN {"no_query"} ELSE {})
                  \cup (IF lowOverlap THEN {"low_overlap"} ELSE {})
                  \cup (IF lowCoverage THEN {"low_coverage"} ELSE {})
                  \cup (IF midCoverage THEN {"mid_coverage"} ELSE {})
                  \cup (IF noConclusion THEN {"no_conclusion"} ELSE {})
                  \cup (IF short THEN {"too_short"} ELSE {})
                  \cup (IF veryShort THEN {"severely_short"} ELSE {})
                  \cup (IF whyUnanswered THEN {"why_unanswered"} ELSE {})
                  \cup (IF howUnanswered THEN {"how_unanswered"} ELSE {})
                  \cup (IF fewSections THEN {"few_sections"} ELSE {})
        score == 100 - (IF noQuery THEN 30 ELSE 0)
                     - (IF lowOverlap THEN 25 ELSE 0)
                     - (IF lowCoverage THEN 30 ELSE 0)
                     - (IF midCoverage THEN 15 ELSE 0)
                     - (IF noConclusion THEN 20 ELSE 0)
                     - (IF short THEN 25 ELSE 0)
                     - (IF veryShort THEN 40 ELSE 0)
                     - (IF whyUnanswered THEN 30 ELSE 0)
                     - (IF howUnanswered THEN 30 ELSE 0)
                     - (IF fewSections THEN 15 ELSE 0)
    IN  Decide(Max(0, score), issues, "complete_ok")

----------------------------------------------------------------------------
(* ValidationCoordinator.validate_reasoning *)

ValidatorNames == {"logic", "source", "completeness"}

CountDecision(validators, d) ==
    Cardinality({n \in ValidatorNames : validators[n].decision = d})

\* mutant: the approval branch asks for all three approvals (CONSENSUS_THRESHOLD)
Consensus_Unanimous(approvals, rejections, revision_requests) ==
    IF approvals >= 3
    THEN [status |-> VERIFIED,
          message |-> [kind |-> "approved", counts |-> <<approvals>>]]
    ELSE IF rejections >= 2
    THEN [status |-> REJECTED,
          message |-> [kind |-> "rejected", counts |-> <<rejections>>]]
    ELSE [status |-> VERIFIED,
          message |-> [kind |-> "caution",
                       counts |-> <<approvals, rejections, revision_requests>>]]

\* mutant: the rejection branch asks for all three rejections
Consensus_RejectAll(approvals, rejections, revision_requests) ==
    IF approvals >= 2
    THEN [status |-> VERIFIED,
          message |-> [kind |-> "approved", counts |-> <<approvals>>]]
    ELSE IF rejections >= 3
    THEN [status |-> REJECTED,
          message |-> [kind |-> "rejected", counts |-> <<rejections>>]]
    ELSE [status |-> VERIFIED,
          message |-> [kind |-> "caution",
                       counts |-> <<approvals, rejections, revision_requests>>]]

\* mutant: a mixed split asks for a revision instead of verifying
Consensus_MixedRevision(approvals, rejections, revision_requests) ==
    IF approvals >= 2
    THEN [status |-> VERIFIED,
          message |-> [kind |-> "approved", counts |-> <<approvals>>]]
    ELSE IF rejections >= 2
    THEN [status |-> REJECTED,
          message |-> [kind |-> "rejected", counts |-> <<rejections>>]]
    ELSE [status |-> REVISION_REQUESTED,
          message |-> [kind |-> "caution",
                       counts |-> <<approvals, rejections, revision_requests>>]]

Consensus(approvals, rejections, revision_requests) ==
    IF approvals >= 2
    THEN [status |-> VERIFIED,
          message |-> [kind |-> "approved", counts |-> <<approvals>>]]
    ELSE IF rejections >= 2
    THEN [status |-> REJECTED,
          message |-> [kind |-> "rejected", counts |-> <<rejections>>]]
    ELSE [status |-> VERIFIED,
          message |-> [kind |-> "caution",
                       counts |-> <<approvals, rejections, revision_requests>>]]

\* a variant that divides by the number of approvals a consensus needs
average_score_OverTwo(logic_score, source_score, completeness_score) ==
    <<logic_score + source_score + completeness_score, 2>>

\* (logic_score + source_score + completeness_score) / 3, as the fraction sum / 3
average_score(logic_score, source_score, completeness_score) ==
    <<logic_score + source_score + completeness_score, 3>>

validate_reasoning(c) ==
    LET validators == [n \in ValidatorNames |->
                          CASE n = "logic" -> LogicValidate(c)
                            [] n = "source" -> SourceValidate(c)
                            [] n = "completeness" -> CompletenessValidate(c)]
        approvals == CountDecision(validators, APPROVE)
        rejections == CountDecision(validators, REJECT)
        revision_requests == CountDecision(validators, NEEDS_REVISION)
        final == Consensus(approvals, rejections, revision_requests)
    IN  [status |-> final.status,
         message |-> final.message,
         validators |-> validators,
         consensus |-> [approvals |-> approvals,
                        rejections |-> rejections,
                        revision_requests |-> revision_requests,
                        average_score |-> average_score(validators["logic"].score,
                                                        validators["source"].score,
                                                        validators["completeness"].score)]]

----------------------------------------------------------------------------
(* Reasoning texts and chains used as inputs *)

GoodText ==
    [kind |-> "reasoning", ref |-> <<>>, has_long_words |-> TRUE,
     len |-> 250, found_keywords |-> 2, contradiction |-> FALSE,
     has_numbers |-> TRUE, has_bullets |-> FALSE,
     has_claims |-> FALSE, has_evidence |-> TRUE, hedges |-> 0,
     has_references |-> FALSE, has_conclusion |-> TRUE,
     has_explanation |-> TRUE, has_process |-> TRUE, section_count |-> 2,
     why |-> FALSE, how |-> FALSE, words |-> {}]

GoodChain ==
    [query |-> [GoodText EXCEPT !.kind = "query", !.len = 40],
     reasoning_type |-> "deductive", type_found |-> TRUE,
     key_concepts |-> 0, concepts_mentioned |-> 0, overlap_low |-> FALSE,
     reasoning_steps |-> GoodText, confidence |-> 50,
     has_research_context |-> TRUE, metta |-> None]

ConsensusTexts ==
    {[GoodText EXCEPT !.found_keywords = k, !.contradiction = x, !.has_numbers = n,
                      !.has_claims = cl, !.has_evidence = ~cl, !.hedges = h,
                      !.has_conclusion = co, !.len = l, !.section_count = sc] :
        k \in 0..MaxKeywords, x \in BOOLEAN, n \in BOOLEAN, cl \in BOOLEAN,
        h \in {0, 4}, co \in BOOLEAN, l \in {40, 99, 100, 199, 200, 250},
        sc \in {0, 2}}

ConsensusChains ==
    {[GoodChain EXCEPT !.reasoning_steps = [t EXCEPT !.has_references = rf],
                       !.has_research_context = rc, !.confidence = cf,
                       !.type_found = tf, !.metta = mk] :
        t \in ConsensusTexts, rc \in BOOLEAN, cf \in {50, 90}, rf \in BOOLEAN,
        tf \in BOOLEAN, mk \in {None, "empty"}}

NoResult ==
    [status |-> None,
     message |-> [kind |-> None, counts |-> <<>>],
     validators |-> [n \in ValidatorNames |->
                        [decision |-> None, issues |-> {}, score |-> 0, flags |-> {}]],
     consensus |-> [approvals |-> 0, rejections |-> 0, revision_requests |-> 0,
                    average_score |-> <<0, 3>>]]

----------------------------------------------------------------------------
(* Specification of validate_reasoning alone: the coordinator is given any  *)
(* chain of ConsensusChains and validates it.                              *)

ConsensusIdle ==
    /\ chain = GoodChain
    /\ result = NoResult

PipelineIdle ==
    /\ net = EmptyBag
    /\ capsule_configured = TRUE
    /\ capsule_files = <<>>
    /\ capsule_stats = [total_capsules |-> 0, total_retrievals |-> 0]
    /\ faiss_index = -1
    /\ capsule_metadata = <<>>
    /\ inbox = EmptyBag
    /\ val_log = {}
    /\ cap_log = {}
    /\ submitted = 0
    /\ handled = 0

\* initialize_storage: an empty metadata list and a zero stats document; no index file
DiskIdle ==
    /\ stats_file = <<[total_capsules |-> 0, total_retrievals |-> 0]>>
    /\ index_file = -1
    /\ metadata_file = << <<>> >>

StoreIdle ==
    /\ id_args = <<>>
    /\ id_out = <<>>
    /\ proc = <<>>
    /\ search_args = <<>>
    /\ search_out = <<>>
    /\ research_log = {}

ReasoningIdle ==
    /\ reasoning_cfg = <<>>
    /\ reasoning_sessions = {}
    /\ reason_log = {}

RouterIdle ==
    /\ agent_to_user_mapping = <<>>
    /\ active_sessions = {}
    /\ running = TRUE
    /\ agent_addresses = <<>>
    /\ queries = 0
    /\ dispatch_log = <<>>
    /\ forward_log = <<>>
    /\ miss_log = <<>>
    /\ overlapped = {}
    /\ asi_one_api_key = ""
    /\ classify_log = {}

ConsensusInit ==
    /\ chain \in ConsensusChains
    /\ result = NoResult
    /\ PipelineIdle
    /\ RouterIdle
    /\ DiskIdle
    /\ StoreIdle
    /\ ReasoningIdle

ValidateReasoning ==
    /\ result = NoResult
    /\ result' = validate_reasoning(chain)
    /\ UNCHANGED <<chain, pipeline_vars, router_vars, disk_vars, store_vars, search_vars,
                   reasoning_vars>>

ConsensusNext == ValidateReasoning

SpecConsensus == ConsensusInit /\ [][ConsensusNext]_vars

----------------------------------------------------------------------------
(* Claims about validate_reasoning *)

Validated == result.status # None

\* the decisions of the three validators, counted from the returned per-validator results
NumDecisions(d) ==
    (IF result.validators["logic"].decision = d THEN 1 ELSE 0)
    + (IF result.validators["source"].decision = d THEN 1 ELSE 0)
    + (IF result.validators["completeness"].decision = d THEN 1 ELSE 0)

C4_VerifiedHasAnApproval ==
    (Validated /\ result.status = VERIFIED) => NumDecisions(APPROVE) >= 1

\* C31: the status is VERIFIED only when all three validators decided APPROVE, and
\* when one or two validators decided REJECT the status is REVISION_REQUESTED.
C31_UnanimousOrRevision ==
    Validated =>
        /\ result.status = VERIFIED => NumDecisions(APPROVE) = 3
        /\ NumDecisions(REJECT) \in {1, 2} => result.status = REVISION_REQUESTED

\* C25, as stated: for each validator, APPROVE iff s >= 0.8 and no flag was
\* triggered; NEEDS_REVISION iff 0.6 <= s < 0.8; REJECT iff s < 0.6.
C25_DecisionMappingAsStated ==
    Validated =>
        \A n \in ValidatorNames :
            LET v == result.validators[n]
            IN  /\ v.decision = APPROVE <=> (v.score >= 80 /\ v.flags = {})
                /\ v.decision = NEEDS_REVISION <=> (v.score >= 60 /\ v.score < 80)
                /\ v.decision = REJECT <=> v.score < 60

\* C25: for each validator, APPROVE iff s >= 0.8 and no flag was triggered;
\* REJECT iff s < 0.6; NEEDS_REVISION in every other case, that is iff
\* 0.6 <= s < 0.8 or s >= 0.8 with a flag triggered.
C25_DecisionMapping ==
    Validated =>
        \A n \in ValidatorNames :
            LET v == result.validators[n]
            IN  /\ v.score \in 0..100
                /\ v.decision = APPROVE <=> (v.score >= 80 /\ v.flags = {})
                /\ v.decision = NEEDS_REVISION <=>
                       (v.score >= 60 /\ (v.score < 80 \/ v.flags # {}))
                /\ v.decision = REJECT <=> v.score < 60

\* the logic validator scores 0.85 with one flag and asks for a revision, while
\* another validator approves and another rejects
C25_Witness ==
    /\ Validated
    /\ result.validators["logic"].score = 85
    /\ result.validators["logic"].flags = {"no_steps"}
    /\ result.validators["logic"].decision = NEEDS_REVISION
    /\ \E n \in ValidatorNames : result.validators[n].decision = APPROVE
    /\ \E n \in ValidatorNames : result.validators[n].decision = REJECT

MinScore ==
    Min(result.validators["logic"].score,
        Min(result.validators["source"].score, result.validators["completeness"].score))

MaxScore ==
    Max(result.validators["logic"].score,
        Max(result.validators["source"].score, result.validators["completeness"].score))

C27_LengthPenalty ==
    Validated =>
        LET v == result.validators["completeness"]
            l == chain.reasoning_steps.len
        IN  v.flags \subseteq {"too_short", "severely_short"} =>
                v.score = 100 - (IF l < 100 THEN 40 ELSE IF l < 200 THEN 25 ELSE 0)

\* C28: a chain whose confidence exceeds 0.8 and that has neither research context
\* nor knowledge-graph usage gets NEEDS_REVISION from the source validator.
C28_HighConfidenceNeedsRevision ==
    (Validated /\ chain.confidence > 80 /\ ~chain.has_research_context
        /\ chain.metta = None) =>
        result.validators["source"].decision = NEEDS_REVISION

\* C40: each of the three validators decides APPROVE only when none of its checks
\* was triggered, and then returns the score 1.0; a chain with fewer than 2
\* connective words gets a logic score of at most 0.8 and a logic decision of
\* NEEDS_REVISION or REJECT.
C40_ApproveOnlyUnflagged ==
    Validated =>
        /\ \A n \in ValidatorNames :
              result.validators[n].decision = APPROVE =>
                  /\ result.validators[n].flags = {}
                  /\ result.validators[n].score = 100
        /\ chain.reasoning_steps.found_keywords < 2 =>
              /\ "no_structure" \in result.validators["logic"].flags
              /\ result.validators["logic"].score <= 80
              /\ result.validators["logic"].decision \in {NEEDS_REVISION, REJECT}

\* the source validator approves a chain that cites references, and the logic
\* validator asks for a revision of it at 0.8 for its missing connective words
C40_Witness ==
    /\ Validated
    /\ chain.reasoning_steps.has_references
    /\ result.validators["source"].decision = APPROVE
    /\ chain.reasoning_steps.found_keywords < 2
    /\ result.validators["logic"].score = 80
    /\ result.validators["logic"].decision = NEEDS_REVISION

----------------------------------------------------------------------------
(* Messages.  A ChatMessage carries at most one TextContent and at most    *)
(* one MetadataContent; an absent item is the empty sequence.  A metadata  *)
(* key that is absent has the value None (strings) or <<>> (documents).    *)

RouterAddr == "query_router_agent"
ResearchAddr == "research_agent"
ReasoningAddr == "reasoning_agent"
ValidationAddr == "validation_agent"
CapsuleAddr == "capsule_agent"
ClientAddr == "client"
Users == {"user1", "user2"}

EmptyMeta ==
    [reasoning_chain |-> <<>>, validation_proof |-> <<>>, action |-> None,
     status |-> None, original_sender |-> None, session_id |-> None,
     user_address |-> None, reasoning_type |-> None, confidence |-> None,
     query_type |-> None, capabilities |-> None, research_context |-> None,
     notification_only |-> None]

\* session is the StartSessionContent / EndSessionContent item, if any.  cause is
\* history, not content: the user whose query a worker's response answers.
ChatMessage(src, dst, text, meta) ==
    [type |-> "chat", src |-> src, dst |-> dst, text |-> text, meta |-> meta,
     session |-> None, cause |-> None]

ChatAcknowledgement(src, dst) ==
    [type |-> "ack", src |-> src, dst |-> dst, text |-> <<>>, meta |-> <<>>,
     session |-> None, cause |-> None]

create_text_message(src, dst, t) == ChatMessage(src, dst, <<t>>, <<>>)

\* json.dumps / json.loads: a string holding a document, or a string that does not parse
json_dumps(doc) == [json |-> <<doc>>]
MalformedJson == [json |-> <<>>]
IsStr(v) == "json" \in DOMAIN v
\* the value a metadata key yields after the isinstance / json.loads / except: pass steps
LoadDocument(v) ==
    IF v = <<>> THEN <<>>
    ELSE IF IsStr(v[1]) THEN v[1].json
    ELSE v

\* the bag of the messages of a sequence
RECURSIVE BagOfSeq(_)
BagOfSeq(q) == IF q = <<>> THEN EmptyBag ELSE SetToBag({Head(q)}) (+) BagOfSeq(Tail(q))

\* the addresses whose handlers are part of the model; other parties only receive
Agents == {RouterAddr, ResearchAddr, ReasoningAddr, ValidationAddr, CapsuleAddr}
ToAgent(m) == m.dst \in Agents
ToOutside(m) == m.dst \notin Agents

----------------------------------------------------------------------------
(* Texts the agents produce *)

\* "Error: No reasoning chain provided for validation" and the capsule agent's
\* "Error: ..." texts: one short line, no structure
ErrorText(kind) ==
    [kind |-> kind, ref |-> <<>>, has_long_words |-> TRUE,
     len |-> 75, found_keywords |-> 0, contradiction |-> FALSE,
     has_numbers |-> FALSE, has_bullets |-> FALSE,
     has_claims |-> FALSE, has_evidence |-> FALSE, hedges |-> 0,
     has_references |-> FALSE, has_conclusion |-> FALSE,
     has_explanation |-> TRUE, has_process |-> FALSE, section_count |-> 0,
     why |-> FALSE, how |-> FALSE, words |-> {}]

\* str.lower on the words of the sample queries
lower_word(w) ==
    CASE w = "Find" -> "find"
      [] w = "WHY" -> "why"
      [] OTHER -> w

\* query.lower(), as far as the keyword tests can tell
query_lower(query) == {lower_word(w) : w \in query.words}

\* text[:200]: the words of the samples all lie within the first 200 characters
Prefix200(t) == [t EXCEPT !.len = Min(t.len, 200)]

\* the "KNOWLEDGE CAPSULE CREATED" confirmation: the capsule's query inside a fixed
\* frame of more than 200 characters with two "- Total ..." bullet lines
ConfirmationText(capsule) ==
    [capsule.query EXCEPT !.kind = "capsule_created", !.ref = capsule.capsule_id,
                          !.len = 250 + capsule.query.len, !.has_bullets = TRUE,
                          !.has_long_words = TRUE,
                          !.section_count = Max(2, capsule.query.section_count)]

----------------------------------------------------------------------------
(* Validation agent: handle_validation_request *)

\* the chain built from the text when the message carries no structured chain
BasicChain(query_text) ==
    [query |-> Prefix200(query_text),
     reasoning_type |-> "unknown", type_found |-> FALSE,
     key_concepts |-> 0, concepts_mentioned |-> 0,
     overlap_low |-> ~query_text.has_long_words,
     reasoning_steps |-> query_text, confidence |-> 50,
     has_research_context |-> FALSE, metta |-> None]

create_validation_proof(reasoning_chain, validation_result) ==
    [status |-> validation_result.status,
     reasoning_chain |-> reasoning_chain,
     validation_result |-> validation_result,
     validators |-> validation_result.validators,
     consensus |-> validation_result.consensus,
     metadata |-> [validator_version |-> "1.0",
                   validation_type |-> "multi_agent_automated",
                   confidence |-> reasoning_chain.confidence,
                   reasoning_type |-> reasoning_chain.reasoning_type]]

\* mutant: the chain is forwarded whatever the consensus status
ForwardsToCapsule_AnyStatus(status, configured) == configured

\* the condition under which the store message is sent
ForwardsToCapsule(status, configured) == status = VERIFIED /\ configured

\* mutant: a proof is created for every validated chain
CreatesProof_Always(status) == TRUE

CreatesProof(status) == status = VERIFIED

\* what the handler extracts from the message
ExtractChain(text, meta) ==
    LET fromMeta == IF meta = <<>> THEN <<>> ELSE LoadDocument(meta[1].reasoning_chain)
        hasText == text # <<>> /\ text[1].len > 0
    IN  IF fromMeta # <<>> THEN fromMeta
        ELSE IF hasText THEN <<BasicChain(text[1])>>
        ELSE <<>>

\* the whole handler: the messages it sends, in order, and what it did
handle_validation_request(sender, text, meta, configured) ==
    LET ack == ChatAcknowledgement(ValidationAddr, sender)
        session_id == IF meta = <<>> THEN None ELSE meta[1].session_id
        user_address == IF meta = <<>> THEN None ELSE meta[1].user_address
        rc == ExtractChain(text, meta)
    IN  IF rc = <<>>
        THEN [sends |-> <<ack, create_text_message(ValidationAddr, sender,
                                                   ErrorText("error_no_chain"))>>,
              status |-> None, proof |-> <<>>, chain |-> <<>>]
        ELSE
          LET reasoning_chain == rc[1]
              validation_result == validate_reasoning(reasoning_chain)
              proof == IF CreatesProof(validation_result.status)
                       THEN <<create_validation_proof(reasoning_chain, validation_result)>>
                       ELSE <<>>
              capsule_metadata_ ==
                  [EmptyMeta EXCEPT
                      !.reasoning_chain = <<json_dumps(reasoning_chain)>>,
                      !.validation_proof = IF proof = <<>> THEN <<>>
                                           ELSE <<json_dumps(proof[1])>>,
                      !.status = "verified",
                      !.original_sender = sender,
                      !.session_id = IF session_id = None THEN "" ELSE session_id,
                      !.user_address = IF user_address = None THEN "" ELSE user_address]
              store == ChatMessage(ValidationAddr, CapsuleAddr,
                                   <<reasoning_chain.query>>, <<capsule_metadata_>>)
          IN  [sends |-> IF ForwardsToCapsule(validation_result.status, configured)
                         THEN <<ack, store>> ELSE <<ack>>,
               status |-> validation_result.status,
               proof |-> proof,
               chain |-> rc]

----------------------------------------------------------------------------
(* Capsule agent (capsule_agent.py).  A string is a sequence of symbols; a  *)
(* query text or a type name that enters an id unexamined is one symbol.    *)
(* capsule_files is CAPSULE_STORAGE_DIR: one entry per file, its name (the  *)
(* capsule id) and its content, a JSON text.                                *)

\* values of datetime.now(timezone.utc).isoformat(): the wall clock, which may
\* give the same reading twice
Instants == {"t1", "t2"}

\* hashlib.sha256(content.encode()).hexdigest()[:16], taken to be free of
\* collisions: distinct strings have distinct digests
sha256_16(content) == content

\* f"{query}_{reasoning_type}_{now}"
generate_capsule_id(query, reasoning_type, now) ==
    sha256_16(query \o <<"_">> \o reasoning_type \o <<"_">> \o <<now>>)

StringOf(x) == <<x>>

create_knowledge_capsule(reasoning_chain, validation_proof, now) ==
    [capsule_id |-> generate_capsule_id(StringOf(reasoning_chain.query),
                                        StringOf(reasoning_chain.reasoning_type), now),
     version |-> "1.0",
     created_at |-> now,
     updated_at |-> now,
     query |-> reasoning_chain.query,
     reasoning_type |-> reasoning_chain.reasoning_type,
     key_concepts |-> reasoning_chain.key_concepts,
     reasoning_chain |-> reasoning_chain,
     reasoning_steps |-> reasoning_chain.reasoning_steps,
     confidence |-> reasoning_chain.confidence,
     validation_proof |-> validation_proof,
     validation_status |-> validation_proof.status,
     validator_id |-> "unknown",
     metta_knowledge_used |-> reasoning_chain.metta,
     usage_stats |-> [retrieval_count |-> 0, last_retrieved |-> None],
     metadata |-> [auto_approved |-> FALSE, category |-> reasoning_chain.reasoning_type]]

\* capsule_file.exists() and the position of the file in the directory
FileExists(files, name) == \E i \in DOMAIN files : files[i].name = name
FileIndex(files, name) == CHOOSE i \in DOMAIN files : files[i].name = name
FileContent(files, name) == files[FileIndex(files, name)].content

PutFile(files, name, content) ==
    IF FileExists(files, name)
    THEN [files EXCEPT ![FileIndex(files, name)].content = content]
    ELSE Append(files, [name |-> name, content |-> content])

\* with open(path, 'w') as f: json.dump(doc, f).  open creates or truncates the
\* file before anything is written, so a dump that raises leaves an incomplete text.
WriteOutcomes == {"ok", "open_fails", "write_fails"}

WriteJson(files, name, doc, io) ==
    CASE io = "ok" -> PutFile(files, name, json_dumps(doc))
      [] io = "open_fails" -> files
      [] io = "write_fails" -> PutFile(files, name, MalformedJson)

\* the same for a file that is not in the capsule directory
WriteJsonFile(file, doc, io) ==
    CASE io = "ok" -> <<doc>>
      [] io = "open_fails" -> file
      [] io = "write_fails" -> <<>>

\* save_capsule: the exception is caught, False is returned
save_capsule(files, capsule, io) ==
    [files |-> WriteJson(files, capsule.capsule_id, capsule, io),
     saved |-> io = "ok"]

\* save_stats: the exception is caught and printed
save_stats(file, stats, io) == WriteJsonFile(file, stats, io)

\* the steps of index_capsule_in_faiss at which an exception can be raised
IndexOutcomes ==
    {"ok", "encode_fails", "add_fails", "index_write_fails",
     "metadata_open_fails", "metadata_write_fails"}

metadata_entry(capsule) ==
    [capsule_id |-> capsule.capsule_id, query |-> capsule.query,
     reasoning_type |-> capsule.reasoning_type, content |-> capsule.reasoning_steps,
     confidence |-> capsule.confidence, timestamp |-> capsule.created_at]

\* index_capsule_in_faiss: the index and the metadata list in memory and their files
index_capsule_in_faiss(index, metadata, ifile, mfile, capsule, io) ==
    LET same == [indexed |-> FALSE, faiss_index |-> index, capsule_metadata |-> metadata,
                 index_file |-> ifile, metadata_file |-> mfile]
        added == [same EXCEPT !.faiss_index = index + 1,
                              !.capsule_metadata = Append(metadata, metadata_entry(capsule))]
    IN  IF index = -1 THEN same
        ELSE CASE io \in {"encode_fails", "add_fails"} -> same
               [] io = "index_write_fails" -> added
               [] io = "metadata_open_fails" ->
                      [added EXCEPT !.index_file = added.faiss_index]
               [] io = "metadata_write_fails" ->
                      [added EXCEPT !.index_file = added.faiss_index,
                                    !.metadata_file = <<>>]
               [] io = "ok" ->
                      [added EXCEPT !.indexed = TRUE,
                                    !.index_file = added.faiss_index,
                                    !.metadata_file = <<added.capsule_metadata>>]

\* load_faiss_index at startup, when capsule_metadata is still []: the index (-1 for
\* None) and the metadata list
load_faiss_index(ifile, mfile) ==
    IF ifile = -1 THEN [faiss_index |-> 0, capsule_metadata |-> <<>>]
    ELSE IF mfile = <<>> THEN [faiss_index |-> -1, capsule_metadata |-> <<>>]
    ELSE [faiss_index |-> ifile, capsule_metadata |-> mfile[1]]

\* json.load(f) of a capsule file: <<document>>, or <<>> when it raises
ReadJson(content) == content.json

RetrieveOutcomes == {"ok", "read_fails", "open_fails", "write_fails"}

\* a variant that also stamps the document as updated
update_usage_stats_Touch(capsule, now) ==
    [capsule EXCEPT !.usage_stats.retrieval_count = @ + 1,
                    !.usage_stats.last_retrieved = now,
                    !.updated_at = now]

\* capsule['usage_stats']['retrieval_count'] += 1; ['last_retrieved'] = now
update_usage_stats(capsule, now) ==
    [capsule EXCEPT !.usage_stats.retrieval_count = @ + 1,
                    !.usage_stats.last_retrieved = now]

\* retrieve_capsule: the capsule returned (<<>> for None) and the directory, the
\* stats and the stats file afterwards
retrieve_capsule(files, stats, sfile, capsule_id, now, io, stats_io) ==
    LET same == [capsule |-> <<>>, files |-> files, stats |-> stats, stats_file |-> sfile]
    IN  IF ~FileExists(files, capsule_id) THEN same
        ELSE LET loaded == IF io = "read_fails" THEN <<>>
                           ELSE ReadJson(FileContent(files, capsule_id))
             IN  IF loaded = <<>> THEN same
                 ELSE LET capsule == update_usage_stats(loaded[1], now)
                          new_stats == [stats EXCEPT !.total_retrievals = @ + 1]
                      IN  CASE io = "open_fails" -> same
                            [] io = "write_fails" ->
                                   [same EXCEPT !.files =
                                       PutFile(files, capsule_id, MalformedJson)]
                            [] OTHER ->
                                   [capsule |-> <<capsule>>,
                                    files |-> PutFile(files, capsule_id, json_dumps(capsule)),
                                    stats |-> new_stats,
                                    stats_file |-> save_stats(sfile, new_stats, stats_io)]

\* list_all_capsules over the files in the order glob yields them: the try
\* statement encloses the loop, so the first file that cannot be read ends it
RECURSIVE list_all_capsules(_, _)
list_all_capsules(files, order) ==
    IF order = <<>> THEN <<>>
    ELSE LET loaded == ReadJson(files[Head(order)].content)
         IN  IF loaded = <<>> THEN <<>>
             ELSE <<[capsule_id |-> loaded[1].capsule_id,
                     query |-> loaded[1].query,
                     reasoning_type |-> loaded[1].reasoning_type,
                     confidence |-> loaded[1].confidence,
                     created_at |-> loaded[1].created_at,
                     retrieval_count |-> loaded[1].usage_stats.retrieval_count]>>
                  \o list_all_capsules(files, Tail(order))

\* the orders in which glob can yield n files
GlobOrders(n) ==
    {o \in [1..n -> 1..n] : \A i, j \in 1..n : i # j => o[i] # o[j]}

ReplyText(kind, ref) == [ErrorText(kind) EXCEPT !.ref = ref]

\* the address handle_capsule_request answers to
CapsuleReplyTo(sender, meta) == sender

\* a variant that lists the capsules when the action is not one it knows
extract_action_ListUnknown(meta) ==
    IF meta = <<>> \/ meta[1].action = None THEN "store"
    ELSE IF meta[1].action \in {"store", "retrieve"} THEN meta[1].action
    ELSE "list"

\* action = "store", replaced by metadata['action'] when the key is present
extract_action(meta) ==
    IF meta = <<>> \/ meta[1].action = None THEN "store" ELSE meta[1].action

\* a variant that counts the request before it is examined
after_missing_input_Counted(st) == [st EXCEPT !.stats.total_capsules = @ + 1]

\* the state a store request without chain or proof leaves: the handler returns
\* before anything is created or written
after_missing_input(st) == st

\* the capsule agent's memory and files
CapsuleState(files, stats, index, metadata, sfile, ifile, mfile) ==
    [files |-> files, stats |-> stats, faiss_index |-> index,
     capsule_metadata |-> metadata, stats_file |-> sfile, index_file |-> ifile,
     metadata_file |-> mfile]

\* the whole handler: the messages it sends, in order, and the state it leaves.
\* env holds what the run gets from outside: the clock reading, the outcome of
\* each file operation and the order of the directory listing.
handle_capsule_request(sender, text, meta, st, env) ==
    LET ack == ChatAcknowledgement(CapsuleAddr, sender)
        reasoning_chain == IF meta = <<>> THEN <<>> ELSE LoadDocument(meta[1].reasoning_chain)
        validation_proof == IF meta = <<>> THEN <<>> ELSE LoadDocument(meta[1].validation_proof)
        action == extract_action(meta)
        reply(t) == create_text_message(CapsuleAddr, CapsuleReplyTo(sender, meta), t)
    IN  IF action = "retrieve"
        THEN LET capsule_id == IF text = <<>> THEN <<"None">> ELSE text[1].ref
                 r == retrieve_capsule(st.files, st.stats, st.stats_file, capsule_id,
                                       env.now, env.retrieve_io, env.stats_io)
             IN  [st EXCEPT !.files = r.files, !.stats = r.stats,
                            !.stats_file = r.stats_file]
                 @@ [stored |-> <<>>, capsule |-> r.capsule, path |-> "retrieve",
                     sends |-> <<ack, reply(IF r.capsule # <<>>
                                            THEN ReplyText("capsule_retrieved", capsule_id)
                                            ELSE ReplyText("capsule_not_found", capsule_id))>>]
        ELSE IF action = "list"
        THEN st
             @@ [stored |-> <<>>, capsule |-> <<>>, path |-> "list",
                 sends |-> <<ack, reply(ReplyText("capsule_list",
                      <<ToString(Len(list_all_capsules(st.files, env.order)))>>))>>]
        ELSE IF reasoning_chain = <<>> \/ validation_proof = <<>>
        THEN after_missing_input(st)
             @@ [stored |-> <<>>, capsule |-> <<>>, path |-> "store_missing",
                 sends |-> <<ack, reply(ErrorText("error_missing"))>>]
        ELSE
          LET capsule == create_knowledge_capsule(reasoning_chain[1], validation_proof[1],
                                                  env.now)
              s == save_capsule(st.files, capsule, env.save_io)
              ix == index_capsule_in_faiss(st.faiss_index, st.capsule_metadata,
                                           st.index_file, st.metadata_file, capsule,
                                           env.index_io)
              new_stats == [st.stats EXCEPT !.total_capsules = @ + 1]
          IN  IF ~s.saved
              THEN [st EXCEPT !.files = s.files]
                   @@ [stored |-> <<>>, capsule |-> <<>>, path |-> "store_failed",
                       sends |-> <<ack, reply(ErrorText("error_save"))>>]
              ELSE [files |-> s.files,
                    stats |-> new_stats,
                    faiss_index |-> ix.faiss_index,
                    capsule_metadata |-> ix.capsule_metadata,
                    stats_file |-> save_stats(st.stats_file, new_stats, env.stats_io),
                    index_file |-> ix.index_file,
                    metadata_file |-> ix.metadata_file,
                    stored |-> <<capsule.capsule_id>>,
                    capsule |-> <<capsule>>,
                    path |-> "store",
                    sends |-> <<ack, reply(ConfirmationText(capsule))>>]

----------------------------------------------------------------------------
(* The validation -> capsule flow: chains are submitted to the validation   *)
(* agent by the reasoning agent (text only) or by a client (structured      *)
(* chain in the metadata); every agent handles its messages in any order.   *)

\* a well-formed text, one without connectives, and one that also contradicts itself
\* and makes unsupported claims
PipelineTexts ==
    {GoodText,
     [GoodText EXCEPT !.found_keywords = 0],
     [GoodText EXCEPT !.found_keywords = 0, !.contradiction = TRUE,
                      !.has_claims = TRUE, !.has_evidence = FALSE]}

\* the validation requests of the reasoning agent: text and session metadata, no chain
ReasoningRequests ==
    {ChatMessage(ReasoningAddr, ValidationAddr, <<t>>,
                 <<[EmptyMeta EXCEPT !.reasoning_type = "causal", !.confidence = "0.4",
                                     !.session_id = IF u = None THEN None ELSE "session",
                                     !.user_address = u]>>) :
        t \in PipelineTexts, u \in {None, "user1"}}

\* requests of a client: a structured chain (as a document or as JSON), a string that
\* does not parse, or nothing at all
ClientRequests ==
    {ChatMessage(ClientAddr, ValidationAddr, <<>>, <<>>),
     ChatMessage(ClientAddr, ValidationAddr, <<>>,
                 <<[EmptyMeta EXCEPT !.reasoning_chain = <<MalformedJson>>]>>),
     ChatMessage(ClientAddr, ValidationAddr, <<GoodText>>,
                 <<[EmptyMeta EXCEPT !.reasoning_chain = <<json_dumps(GoodChain)>>]>>),
     ChatMessage(ClientAddr, ValidationAddr, <<>>,
                 <<[EmptyMeta EXCEPT !.reasoning_chain = <<GoodChain>>]>>)}

Take(m, sends) ==
    /\ net' = (net (-) SetToBag({m})) (+) BagOfSeq(SelectSeq(sends, ToAgent))
    /\ inbox' = inbox (+) BagOfSeq(SelectSeq(sends, ToOutside))

SendSummary(sends) ==
    [i \in DOMAIN sends |->
        [dst |-> sends[i].dst, type |-> sends[i].type,
         kind |-> IF sends[i].text = <<>> THEN None ELSE sends[i].text[1].kind,
         has_proof |-> sends[i].meta # <<>> /\ sends[i].meta[1].validation_proof # <<>>]]

PipelineInit ==
    /\ ConsensusIdle
    /\ RouterIdle
    /\ DiskIdle
    /\ StoreIdle
    /\ ReasoningIdle
    /\ net = EmptyBag
    /\ capsule_configured \in BOOLEAN
    /\ capsule_files = <<>>
    /\ capsule_stats = [total_capsules |-> 0, total_retrievals |-> 0]
    /\ faiss_index \in {-1, 0}
    /\ capsule_metadata = <<>>
    /\ inbox = EmptyBag
    /\ val_log = {}
    /\ cap_log = {}
    /\ submitted = 0
    /\ handled = 0

SubmitChain ==
    /\ submitted < MaxSubmitted
    /\ \E m \in ReasoningRequests \cup ClientRequests :
          /\ net' = net (+) SetToBag({m})
          /\ submitted' = submitted + 1
    /\ UNCHANGED <<capsule_configured, capsule_files, capsule_stats, faiss_index,
                   capsule_metadata, inbox, val_log, cap_log, handled>>
    /\ UNCHANGED <<consensus_vars, router_vars, disk_vars, store_vars, search_vars, reasoning_vars>>

HandleValidationRequest ==
    /\ handled < MaxHandled
    /\ handled' = handled + 1
    /\ \E m \in BagToSet(net) :
          /\ m.dst = ValidationAddr
          /\ m.type = "chat"
          /\ LET o == handle_validation_request(m.src, m.text, m.meta, capsule_configured)
             IN  /\ Take(m, o.sends)
                 /\ val_log' = val_log \cup
                        {[sender |-> m.src, status |-> o.status,
                          proof_created |-> o.proof # <<>>,
                          sends |-> SendSummary(o.sends)]}
    /\ UNCHANGED <<capsule_configured, capsule_files, capsule_stats, faiss_index,
                   capsule_metadata, cap_log, submitted>>
    /\ UNCHANGED <<consensus_vars, router_vars, disk_vars, store_vars, search_vars, reasoning_vars>>

\* the state the capsule agent's handler starts from
CapsuleNow ==
    CapsuleState(capsule_files, capsule_stats, faiss_index, capsule_metadata,
                 stats_file, index_file, metadata_file)

\* the handler run o leaves its state in the variables and its entry in cap_log
CapsuleHandled(m, o) ==
    /\ Take(m, o.sends)
    /\ capsule_files' = o.files
    /\ capsule_stats' = o.stats
    /\ faiss_index' = o.faiss_index
    /\ capsule_metadata' = o.capsule_metadata
    /\ stats_file' = o.stats_file
    /\ index_file' = o.index_file
    /\ metadata_file' = o.metadata_file
    /\ cap_log' = cap_log \cup
           {[sender |-> m.src,
             original_sender |-> IF m.meta = <<>> THEN None
                                 ELSE m.meta[1].original_sender,
             user_address |-> IF m.meta = <<>> THEN None
                              ELSE m.meta[1].user_address,
             action |-> IF m.meta = <<>> THEN None ELSE m.meta[1].action,
             path |-> o.path, stored |-> o.stored, capsule |-> o.capsule,
             sends |-> SendSummary(o.sends)]}

\* in this flow the capsule file may fail to open; every other file operation succeeds
PipelineEnvs ==
    {[now |-> now, save_io |-> save_io, index_io |-> "ok", stats_io |-> "ok",
      retrieve_io |-> "ok", order |-> [i \in DOMAIN capsule_files |-> i]] :
        now \in Instants, save_io \in {"ok", "open_fails"}}

HandleCapsuleRequest ==
    /\ handled < MaxHandled
    /\ handled' = handled + 1
    /\ \E m \in BagToSet(net), env \in PipelineEnvs :
          /\ m.dst = CapsuleAddr
          /\ m.type = "chat"
          /\ CapsuleHandled(m, handle_capsule_request(m.src, m.text, m.meta,
                                                      CapsuleNow, env))
    /\ UNCHANGED <<capsule_configured, val_log, submitted>>
    /\ UNCHANGED <<consensus_vars, router_vars, store_vars, search_vars, reasoning_vars>>

\* handle_acknowledgement of the validation, capsule and reasoning agents
HandleAcknowledgement ==
    /\ \E m \in BagToSet(net) :
          /\ m.type = "ack"
          /\ net' = net (-) SetToBag({m})
    /\ UNCHANGED <<capsule_configured, capsule_files, capsule_stats, faiss_index,
                   capsule_metadata, inbox, val_log, cap_log, submitted, handled>>
    /\ UNCHANGED <<consensus_vars, router_vars, disk_vars, store_vars, search_vars, reasoning_vars>>

PipelineNext ==
    \/ SubmitChain
    \/ HandleValidationRequest
    \/ HandleCapsuleRequest
    \/ HandleAcknowledgement

SpecPipeline == PipelineInit /\ [][PipelineNext]_vars

----------------------------------------------------------------------------
(* Claims about the validation -> capsule flow *)

\* the handler run e sent a store message (chain and proof) to the capsule agent
StoreSent(e) ==
    \E i \in DOMAIN e.sends :
        /\ e.sends[i].dst = CapsuleAddr
        /\ e.sends[i].type = "chat"
        /\ e.sends[i].has_proof

OnlyAcknowledged(e) ==
    /\ Len(e.sends) = 1
    /\ e.sends[1].type = "ack"
    /\ e.sends[1].dst = e.sender

C6_OneCapsulePerChain ==
    /\ Len(capsule_files) <= submitted
    /\ \A e \in val_log : e.sender # CapsuleAddr

\* C7: the confirmation of a stored capsule is sent to the original requester named
\* in the store message (original_sender or user_address).
C7_ConfirmationToRequester ==
    \A e \in cap_log :
        (e.path = "store" /\ e.sender = ValidationAddr) =>
            \E i \in DOMAIN e.sends :
                /\ e.sends[i].kind = "capsule_created"
                /\ e.sends[i].dst \in {e.original_sender, e.user_address}

----------------------------------------------------------------------------
(* Query router agent (query_router_agent.py) *)

SIMPLE_FACTUAL == "simple_factual"
COMPLEX_REASONING == "complex_reasoning"
VALIDATION_REQUEST == "validation_request"
CAPSULE_LOOKUP == "capsule_lookup"
UNKNOWN == "unknown"
QueryType == {SIMPLE_FACTUAL, COMPLEX_REASONING, VALIDATION_REQUEST, CAPSULE_LOOKUP, UNKNOWN}

\* the values classify_query_with_asi_one returns: the label of the remote classifier
\* or the result of fallback_classification, never UNKNOWN
ClassifierResults == QueryType \ {UNKNOWN}

WorkerAddrs == {ResearchAddr, ReasoningAddr, ValidationAddr, CapsuleAddr}

\* AGENT_ADDRESSES with every environment variable set
AllConfigured ==
    [research |-> ResearchAddr, reasoning |-> ReasoningAddr,
     validation |-> ValidationAddr, capsule |-> CapsuleAddr]

\* the configurations explored: all workers, or the validation agent left unset
AddressConfigs == {AllConfigured, [AllConfigured EXCEPT !.validation = ""]}

\* agent_to_user_mapping = {}: no worker has a waiting user
EmptyMapping == [w \in WorkerAddrs |-> None]

\* a set-if-absent variant of the registration
mapping_set_KeepFirst(mapping, target_address, user_address) ==
    IF mapping[target_address] = None
    THEN [mapping EXCEPT ![target_address] = user_address]
    ELSE mapping

\* agent_to_user_mapping[target_address] = user_address
mapping_set(mapping, target_address, user_address) ==
    [mapping EXCEPT ![target_address] = user_address]

\* a variant of the lookup that ignores which worker answered
mapping_get_AnyEntry(mapping, sender) ==
    IF mapping[ResearchAddr] # None THEN mapping[ResearchAddr]
    ELSE IF mapping[ReasoningAddr] # None THEN mapping[ReasoningAddr]
    ELSE IF mapping[ValidationAddr] # None THEN mapping[ValidationAddr]
    ELSE mapping[CapsuleAddr]

\* agent_to_user_mapping.get(sender)
mapping_get(mapping, sender) ==
    IF sender \in DOMAIN mapping THEN mapping[sender] ELSE None

\* the variant with the clean-up statement enabled: del agent_to_user_mapping[sender]
after_forward_Delete(mapping, sender) == [mapping EXCEPT ![sender] = None]

\* the table after a forward: the del statement is commented out
after_forward(mapping, sender) == mapping

\* the key of AGENT_ADDRESSES and the error text of each branch of route_to_agent
RouteKey(query_type) ==
    CASE query_type = SIMPLE_FACTUAL -> "research"
      [] query_type = COMPLEX_REASONING -> "reasoning"
      [] query_type = VALIDATION_REQUEST -> "validation"
      [] query_type = CAPSULE_LOOKUP -> "capsule"
      [] OTHER -> None

route_to_agent(mapping, addresses, query, query_type, session_id, user_address) ==
    LET routing_metadata ==
            [EmptyMeta EXCEPT !.query_type = query_type, !.session_id = session_id,
                              !.user_address = user_address]
        key == RouteKey(query_type)
    IN  IF key = None
        THEN [mapping |-> mapping,
              sends |-> <<create_text_message(RouterAddr, user_address,
                                              ReplyText("unable_to_classify", <<>>))>>]
        ELSE LET target_address == addresses[key]
             IN  IF target_address # ""
                 THEN [mapping |-> mapping_set(mapping, target_address, user_address),
                       sends |-> <<ChatMessage(RouterAddr, target_address, <<query>>,
                                               <<routing_metadata>>)>>]
                 ELSE [mapping |-> mapping,
                       sends |-> <<create_text_message(RouterAddr, user_address,
                                                       ReplyText("not_available", <<>>))>>]

\* a variant that tests the keys of AGENT_ADDRESSES: sender in AGENT_ADDRESSES
is_agent_response_KeyLookup(addresses, sender) == sender \in DOMAIN addresses

\* any(agent_addr and sender == agent_addr for agent_addr in AGENT_ADDRESSES.values())
is_agent_response(addresses, sender) ==
    \E k \in DOMAIN addresses : addresses[k] # "" /\ sender = addresses[k]

\* str(uuid4()): an identifier no session has had
NewSessionId(sessions) == ToString(Cardinality(sessions) + 1)

\* handle_chat_message of the router for a message that holds a session item or a
\* text item (with or without metadata).  query_type is what the classifier returns.
router_handle_chat_message(sender, msg, mapping, sessions, addresses, query_type) ==
    LET ack == <<ChatAcknowledgement(RouterAddr, sender)>>
        welcome ==
            IF msg.session = "start"
            THEN <<ChatMessage(RouterAddr, sender, <<ReplyText("welcome", <<>>)>>,
                               <<[EmptyMeta EXCEPT !.capabilities =
                                      "research,reasoning,validation,capsule"]>>)>>
            ELSE <<>>
        ended ==
            IF msg.session = "end"
            THEN {s \in sessions : s.session_id # sender}
            ELSE sessions
        user_address == mapping_get(mapping, sender)
        session_id == NewSessionId(ended)
        routed == route_to_agent(mapping, addresses, msg.text[1], query_type,
                                 session_id, sender)
    IN  IF msg.text = <<>>
        THEN [mapping |-> mapping, sessions |-> ended, sends |-> ack \o welcome,
              path |-> "no_text"]
        ELSE IF is_agent_response(addresses, sender)
        THEN IF user_address # None
             THEN [mapping |-> after_forward(mapping, sender), sessions |-> ended,
                   sends |-> ack \o welcome \o
                             <<[msg EXCEPT !.src = RouterAddr, !.dst = user_address]>>,
                   path |-> "forward"]
             ELSE [mapping |-> mapping, sessions |-> ended, sends |-> ack \o welcome,
                   path |-> "miss"]
        ELSE [mapping |-> routed.mapping,
              sessions |-> ended \cup {[session_id |-> session_id,
                                         user_address |-> sender,
                                         query |-> msg.text[1]]},
              sends |-> ack \o welcome \o
                        <<create_text_message(RouterAddr, sender,
                                              ReplyText("classified", <<>>))>> \o
                        routed.sends,
              path |-> "query"]

\* shutdown_handler: active_sessions.clear(); agent_to_user_mapping.clear()
shutdown_handler == [sessions |-> {}, mapping |-> EmptyMapping]

\* The number of text messages a worker's handler sends back to the sender of a
\* request that has a text.
\* research agent: one answer (results or an error text) for every request
research_replies == 1
\* capsule agent: one answer on every path of handle_capsule_request
capsule_replies == 1
\* validation agent: an answer only for a request without chain and without text
validation_replies == 0
\* reasoning agent: writes to the user_address of the metadata and to the
\* validation agent, not to the sender
reasoning_replies == 0

WorkerReplies(worker) ==
    CASE worker = ResearchAddr -> research_replies
      [] worker = CapsuleAddr -> capsule_replies
      [] worker = ValidationAddr -> validation_replies
      [] worker = ReasoningAddr -> reasoning_replies

----------------------------------------------------------------------------
(* The router between its users and the workers.  Users send session items  *)
(* and queries; the router and the workers handle their messages in any     *)
(* order; the router may be shut down at any time.                          *)

QueryText == [GoodText EXCEPT !.kind = "query", !.len = 40]

UserMessages(u) ==
    {ChatMessage(u, RouterAddr, <<QueryText>>, <<>>),
     [ChatMessage(u, RouterAddr, <<>>, <<>>) EXCEPT !.session = "start"],
     [ChatMessage(u, RouterAddr, <<>>, <<>>) EXCEPT !.session = "end"]}

\* a query sent on by route_to_agent: it carries the routing metadata
IsDispatch(m) ==
    m.type = "chat" /\ m.src = RouterAddr /\ m.dst \in WorkerAddrs /\ m.meta # <<>>
IsResponse(m) == m.type = "chat" /\ m.src \in WorkerAddrs /\ m.dst = RouterAddr

\* a request to the worker or a response of the worker is on its way
Outstanding(worker) ==
    \E m \in BagToSet(net) :
        \/ IsDispatch(m) /\ m.dst = worker
        \/ IsResponse(m) /\ m.src = worker

DispatchesOf(sends) ==
    LET d == SelectSeq(sends, IsDispatch)
    IN  [i \in DOMAIN d |-> [worker |-> d[i].dst, user |-> d[i].meta[1].user_address]]

\* the user of the most recent dispatch sent to the worker, None if there is none
RECURSIVE LastDispatchUser(_, _)
LastDispatchUser(log, worker) ==
    IF log = <<>> THEN None
    ELSE IF log[Len(log)].worker = worker THEN log[Len(log)].user
    ELSE LastDispatchUser(SubSeq(log, 1, Len(log) - 1), worker)

RouterInit ==
    /\ ConsensusIdle
    /\ DiskIdle
    /\ StoreIdle
    /\ ReasoningIdle
    /\ net = EmptyBag
    /\ capsule_configured = TRUE
    /\ capsule_files = <<>>
    /\ capsule_stats = [total_capsules |-> 0, total_retrievals |-> 0]
    /\ faiss_index = -1
    /\ capsule_metadata = <<>>
    /\ inbox = EmptyBag
    /\ val_log = {}
    /\ cap_log = {}
    /\ submitted = 0
    /\ handled = 0
    /\ agent_to_user_mapping = EmptyMapping
    /\ active_sessions = {}
    /\ running = TRUE
    /\ agent_addresses \in AddressConfigs
    /\ queries = 0
    /\ dispatch_log = <<>>
    /\ forward_log = <<>>
    /\ miss_log = <<>>
    /\ overlapped = {}
    /\ asi_one_api_key = ""
    /\ classify_log = {}

RouterFrame ==
    /\ UNCHANGED <<capsule_configured, capsule_files, capsule_stats, faiss_index,
                   capsule_metadata, val_log, cap_log, submitted, handled>>
    /\ UNCHANGED <<consensus_vars, agent_addresses, disk_vars, store_vars, search_vars,
                   reasoning_vars, asi_one_api_key, classify_log>>

UserSends ==
    /\ running
    /\ queries < MaxQueries
    /\ queries' = queries + 1
    /\ \E u \in Users : \E m \in UserMessages(u) : net' = net (+) SetToBag({m})
    /\ UNCHANGED <<inbox, agent_to_user_mapping, active_sessions, running,
                   dispatch_log, forward_log, miss_log, overlapped>>
    /\ RouterFrame

RouterHandleChatMessage ==
    /\ running
    /\ \E m \in BagToSet(net), query_type \in ClassifierResults :
          /\ m.dst = RouterAddr
          /\ m.type = "chat"
          /\ LET o == router_handle_chat_message(m.src, m, agent_to_user_mapping,
                                                 active_sessions, agent_addresses,
                                                 query_type)
                 dispatches == DispatchesOf(o.sends)
                 entry == [worker |-> m.src, cause |-> m.cause,
                           latest |-> LastDispatchUser(dispatch_log, m.src),
                           clean |-> m.src \notin overlapped]
             IN  /\ Take(m, o.sends)
                 /\ agent_to_user_mapping' = o.mapping
                 /\ active_sessions' = o.sessions
                 /\ dispatch_log' = dispatch_log \o dispatches
                 /\ overlapped' = overlapped \cup
                        {dispatches[i].worker : i \in
                            {j \in DOMAIN dispatches : Outstanding(dispatches[j].worker)}}
                 /\ forward_log' =
                        IF o.path = "forward"
                        THEN Append(forward_log,
                                    [entry EXCEPT !.cause = m.cause] @@
                                    [dst |-> o.sends[Len(o.sends)].dst])
                        ELSE forward_log
                 /\ miss_log' = IF o.path = "miss" THEN Append(miss_log, entry)
                                ELSE miss_log
    /\ UNCHANGED <<running, queries>>
    /\ RouterFrame

\* handle_chat_message of a worker, as far as the router can see it: the
\* acknowledgement and the answer to the sender
WorkerHandleChatMessage ==
    /\ \E m \in BagToSet(net) :
          /\ m.type = "chat"
          /\ m.src = RouterAddr
          /\ m.dst \in WorkerAddrs
          /\ LET reply == [create_text_message(m.dst, RouterAddr,
                                               ReplyText("worker_response", <<>>))
                              EXCEPT !.cause = IF m.meta = <<>> THEN None
                                               ELSE m.meta[1].user_address]
             IN  Take(m, <<ChatAcknowledgement(m.dst, RouterAddr)>> \o
                         (IF WorkerReplies(m.dst) = 1 THEN <<reply>> ELSE <<>>))
    /\ UNCHANGED <<agent_to_user_mapping, active_sessions, running, queries,
                   dispatch_log, forward_log, miss_log, overlapped>>
    /\ RouterFrame

\* handle_acknowledgement of the router and of the workers: a log line
RouterHandleAcknowledgement ==
    /\ \E m \in BagToSet(net) :
          /\ m.type = "ack"
          /\ m.dst = RouterAddr => running
          /\ net' = net (-) SetToBag({m})
    /\ UNCHANGED <<inbox, agent_to_user_mapping, active_sessions, running, queries,
                   dispatch_log, forward_log, miss_log, overlapped>>
    /\ RouterFrame

\* dispatch_log holds the dispatches of the running process
Shutdown ==
    /\ running
    /\ running' = FALSE
    /\ active_sessions' = shutdown_handler.sessions
    /\ agent_to_user_mapping' = shutdown_handler.mapping
    /\ dispatch_log' = <<>>
    /\ UNCHANGED <<net, inbox, queries, forward_log, miss_log, overlapped>>
    /\ RouterFrame

\* the agent is started again: the module-level tables are created empty and
\* startup_handler writes its log lines; the mailbox has kept the messages
Startup ==
    /\ ~running
    /\ running' = TRUE
    /\ active_sessions' = {}
    /\ agent_to_user_mapping' = EmptyMapping
    /\ UNCHANGED <<net, inbox, queries, dispatch_log, forward_log, miss_log, overlapped>>
    /\ RouterFrame

RouterNext ==
    \/ UserSends
    \/ RouterHandleChatMessage
    \/ WorkerHandleChatMessage
    \/ RouterHandleAcknowledgement
    \/ Shutdown
    \/ Startup

SpecRouter == RouterInit /\ [][RouterNext]_vars

----------------------------------------------------------------------------
(* Claims about the router's correlation table *)

\* a forwarded worker response has reached the user
ForwardedTo(u) ==
    \E m \in BagToSet(inbox) :
        m.type = "chat" /\ m.dst = u /\ m.text # <<>> /\ m.text[1].kind = "worker_response"

\* C37: when the router handles a user's EndSessionContent, no entry of
\* active_sessions for that user remains.
C37_SessionEndRemovesEntries ==
    [][\A m \in BagToSet(net) :
          (m.dst = RouterAddr /\ m.session = "end"
              /\ CopiesIn(m, net') < CopiesIn(m, net)) =>
                  \A s \in active_sessions' : s.user_address # m.src]_vars

\* C8: while a worker never has more than one request in flight (its response has
\* reached the router before the next request to it is dispatched), every response
\* of that worker which the router forwards goes to the user whose request caused it.
C8_ForwardToRequesterWhenSerial ==
    \A i \in DOMAIN forward_log :
        forward_log[i].clean => forward_log[i].dst = forward_log[i].cause

\* two users were served one after the other by the same worker, each with the own answer
C8_Witness ==
    \E i, j \in DOMAIN forward_log :
        /\ i < j
        /\ forward_log[i].worker = forward_log[j].worker
        /\ forward_log[i].clean /\ forward_log[j].clean
        /\ forward_log[i].dst = "user1" /\ forward_log[i].cause = "user1"
        /\ forward_log[j].dst = "user2" /\ forward_log[j].cause = "user2"

\* C9: the table has one slot per worker and a forward does not consume it: every
\* response of a worker that arrives after the running router has dispatched to
\* that worker is forwarded,
\* and to the user of the most recent dispatch, whoever caused it; hence with two
\* users' requests in flight to one worker both responses can go to the later user
\* and none to the earlier one.
C9_SingleSlotNotExactlyOnce ==
    /\ \A i \in DOMAIN forward_log : forward_log[i].dst = forward_log[i].latest
    /\ \A i \in DOMAIN miss_log : miss_log[i].latest = None

\* both responses of one worker were forwarded to user2, user1 got no response
C9_Witness ==
    /\ \E i, j \in DOMAIN forward_log :
          /\ i # j
          /\ forward_log[i].worker = forward_log[j].worker
          /\ forward_log[i].cause = "user1" /\ forward_log[j].cause = "user2"
          /\ forward_log[i].dst = "user2" /\ forward_log[j].dst = "user2"
    /\ ~ForwardedTo("user1")
    /\ ForwardedTo("user2")
    /\ Len(forward_log) = 2
    /\ ~\E m \in BagToSet(net) : IsDispatch(m) \/ IsResponse(m)

\* dispatch_log is emptied with the table, at shutdown
TableMatchesDispatches ==
    \A w \in WorkerAddrs :
        agent_to_user_mapping[w] = LastDispatchUser(dispatch_log, w)

TableStep ==
    /\ (forward_log' # forward_log \/ miss_log' # miss_log) =>
            agent_to_user_mapping' = agent_to_user_mapping
    /\ agent_to_user_mapping' # agent_to_user_mapping =>
            \/ Len(dispatch_log') > Len(dispatch_log)
            \/ running /\ ~running' /\ agent_to_user_mapping' = EmptyMapping

\* C10: the entry of a worker in agent_to_user_mapping is the user of the most recent
\* dispatch sent to that worker (a later dispatch overwrites it); forwarding a
\* response or missing one leaves the table unchanged; only a dispatch or the
\* shutdown, which empties the table, changes it.
C10_TableTracksLastDispatch ==
    /\ []TableMatchesDispatches
    /\ [][TableStep]_vars

\* a worker's entry was overwritten by a second dispatch and survived a forward
C10_Witness ==
    /\ \E i, j \in DOMAIN dispatch_log :
          /\ i < j
          /\ dispatch_log[i].worker = dispatch_log[j].worker
          /\ dispatch_log[i].user # dispatch_log[j].user
          /\ agent_to_user_mapping[dispatch_log[j].worker] = dispatch_log[j].user
          /\ \A k \in DOMAIN dispatch_log :
                k > j => dispatch_log[k].worker # dispatch_log[j].worker
          /\ \E k \in DOMAIN forward_log :
                forward_log[k].worker = dispatch_log[j].worker
    /\ running

\* a text message of a configured worker for which no user is registered
IsUnmatchedResponse(m) ==
    /\ IsResponse(m)
    /\ m.text # <<>>
    /\ \E k \in DOMAIN agent_addresses : agent_addresses[k] = m.src
    /\ agent_to_user_mapping[m.src] = None

\* the router takes the message m off its mailbox in this step
RouterConsumes(m) ==
    /\ running
    /\ CopiesIn(m, net') < CopiesIn(m, net)

\* C11: when the router handles a text message of a configured worker for which no
\* user is registered, the message is dropped: the only message sent is the
\* acknowledgement to the worker, nothing reaches a user, the message is not put
\* back, no session is created, nothing is dispatched and the table is unchanged.
C11_UnmatchedResponseDropped ==
    [][\A m \in BagToSet(net) :
          (IsUnmatchedResponse(m) /\ RouterConsumes(m)) =>
              /\ net' = (net (-) SetToBag({m})) (+)
                             SetToBag({ChatAcknowledgement(RouterAddr, m.src)})
              /\ inbox' = inbox
              /\ active_sessions' = active_sessions
              /\ dispatch_log' = dispatch_log
              /\ forward_log' = forward_log
              /\ agent_to_user_mapping' = agent_to_user_mapping]_vars

\* a response was missed after a restart, and later responses are still forwarded
C11_Witness ==
    /\ Len(miss_log) >= 1
    /\ miss_log[1].cause \in Users
    /\ Cardinality(active_sessions) = 1
    /\ \E m \in BagToSet(net) : m = ChatAcknowledgement(RouterAddr, miss_log[1].worker)

----------------------------------------------------------------------------
(* generate_capsule_id alone, on strings spelled out character by character *)

\* the characters of a query or a reasoning type: a letter and the separator
Chars == {"a", "_"}

\* the strings of at most n characters
Strings(n) == UNION {[1..k -> Chars] : k \in 0..n}

\* (query, reasoning_type, instant)
Triples == Strings(MaxLen) \X Strings(MaxLen) \X Instants

CapsuleIdInit ==
    /\ ConsensusIdle
    /\ PipelineIdle
    /\ RouterIdle
    /\ DiskIdle
    /\ id_args \in Triples \X Triples
    /\ id_out = <<>>
    /\ proc = <<>>
    /\ search_args = <<>>
    /\ search_out = <<>>
    /\ research_log = {}
    /\ ReasoningIdle

GenerateCapsuleIds ==
    /\ id_out = <<>>
    /\ id_out' = <<generate_capsule_id(id_args[1][1], id_args[1][2], id_args[1][3]),
                   generate_capsule_id(id_args[2][1], id_args[2][2], id_args[2][3])>>
    /\ UNCHANGED <<consensus_vars, pipeline_vars, router_vars, disk_vars, id_args, proc,
                   search_vars, reasoning_vars>>

CapsuleIdNext == GenerateCapsuleIds

SpecCapsuleId == CapsuleIdInit /\ [][CapsuleIdNext]_vars

\* C15: two calls of generate_capsule_id whose (query, reasoning_type, instant)
\* triples differ return different ids, the digest being free of collisions.
C15_DistinctTriplesDistinctIds ==
    (id_out # <<>> /\ id_args[1] # id_args[2]) => id_out[1] # id_out[2]

----------------------------------------------------------------------------
(* The capsule agent serving one client that sends store, retrieve and list *)
(* requests and waits for each reply.  Every file operation of a handler    *)
(* run can fail, and the clock can give the same reading again.             *)

GoodProof == create_validation_proof(GoodChain, validate_reasoning(GoodChain))

\* the ids the client asks for: those of the capsules it can have stored, and another
ClientIds ==
    {create_knowledge_capsule(GoodChain, GoodProof, now).capsule_id : now \in Instants}
        \cup {<<"unknown">>}

CapsuleRequests ==
    {ChatMessage(ClientAddr, CapsuleAddr, <<GoodChain.query>>,
                 <<[EmptyMeta EXCEPT !.reasoning_chain = <<json_dumps(GoodChain)>>,
                                     !.validation_proof = <<json_dumps(GoodProof)>>,
                                     !.action = "store"]>>),
     ChatMessage(ClientAddr, CapsuleAddr, <<GoodChain.query>>,
                 <<[EmptyMeta EXCEPT !.reasoning_chain = <<json_dumps(GoodChain)>>]>>),
     ChatMessage(ClientAddr, CapsuleAddr, <<GoodChain.query>>, <<>>),
     ChatMessage(ClientAddr, CapsuleAddr, <<>>, <<[EmptyMeta EXCEPT !.action = "list"]>>)}
    \cup
    {ChatMessage(ClientAddr, CapsuleAddr, <<ReplyText("capsule_id", id)>>,
                 <<[EmptyMeta EXCEPT !.action = "retrieve"]>>) : id \in ClientIds}

IsCapsuleRequest(m) == m.type = "chat" /\ m.dst = CapsuleAddr

RequestAction(m) == extract_action(m.meta)

\* what a run of the handler for m can meet: the clock reading, the outcome of each
\* file operation it gets to, and the order of the directory listing
CapsuleEnvs(m) ==
    LET identity == [i \in DOMAIN capsule_files |-> i]
        base == [now |-> "t1", save_io |-> "ok", index_io |-> "ok", stats_io |-> "ok",
                 retrieve_io |-> "ok", order |-> identity]
    IN  CASE RequestAction(m) = "retrieve" ->
                 {[base EXCEPT !.retrieve_io = io] : io \in RetrieveOutcomes \ {"ok"}}
                 \cup
                 {[base EXCEPT !.now = now, !.stats_io = sio] :
                     now \in Instants, sio \in WriteOutcomes}
          [] RequestAction(m) = "list" ->
                 {[base EXCEPT !.order = o] : o \in GlobOrders(Len(capsule_files))}
          [] OTHER ->
                 {[base EXCEPT !.now = now, !.save_io = io] :
                     now \in Instants, io \in WriteOutcomes \ {"ok"}}
                 \cup
                 {[base EXCEPT !.now = now, !.index_io = xio, !.stats_io = sio] :
                     now \in Instants, xio \in IndexOutcomes, sio \in WriteOutcomes}

CapsuleInit ==
    /\ ConsensusIdle
    /\ RouterIdle
    /\ DiskIdle
    /\ StoreIdle
    /\ ReasoningIdle
    /\ net = EmptyBag
    /\ capsule_configured = TRUE
    /\ capsule_files = <<>>
    /\ capsule_stats = [total_capsules |-> 0, total_retrievals |-> 0]
    /\ faiss_index = 0
    /\ capsule_metadata = <<>>
    /\ inbox = EmptyBag
    /\ val_log = {}
    /\ cap_log = {}
    /\ submitted = 0
    /\ handled = 0

ClientSends ==
    /\ submitted < MaxRequests
    /\ ~\E m \in BagToSet(net) : IsCapsuleRequest(m)
    /\ submitted' = submitted + 1
    /\ \E m \in CapsuleRequests : net' = net (+) SetToBag({m})
    /\ UNCHANGED <<capsule_configured, capsule_files, capsule_stats, faiss_index,
                   capsule_metadata, inbox, val_log, cap_log, handled>>
    /\ UNCHANGED <<consensus_vars, router_vars, disk_vars, store_vars, search_vars, reasoning_vars>>

CapsuleHandlesRequest ==
    /\ handled' = handled + 1
    /\ \E m \in BagToSet(net) :
          /\ IsCapsuleRequest(m)
          /\ \E env \in CapsuleEnvs(m) :
                CapsuleHandled(m, handle_capsule_request(m.src, m.text, m.meta,
                                                         CapsuleNow, env))
    /\ UNCHANGED <<capsule_configured, val_log, submitted>>
    /\ UNCHANGED <<consensus_vars, router_vars, store_vars, search_vars, reasoning_vars>>

CapsuleNext ==
    \/ ClientSends
    \/ CapsuleHandlesRequest

SpecCapsule == CapsuleInit /\ [][CapsuleNext]_vars

\* the same client and agent when no file operation fails
NoFailureEnvs(m) ==
    {env \in CapsuleEnvs(m) :
        /\ env.save_io = "ok"
        /\ env.index_io = "ok"
        /\ env.stats_io = "ok"
        /\ env.retrieve_io = "ok"}

CapsuleHandlesRequestNoFailure ==
    /\ handled' = handled + 1
    /\ \E m \in BagToSet(net) :
          /\ IsCapsuleRequest(m)
          /\ \E env \in NoFailureEnvs(m) :
                CapsuleHandled(m, handle_capsule_request(m.src, m.text, m.meta,
                                                         CapsuleNow, env))
    /\ UNCHANGED <<capsule_configured, val_log, submitted>>
    /\ UNCHANGED <<consensus_vars, router_vars, store_vars, search_vars, reasoning_vars>>

CapsuleNoFailureNext ==
    \/ ClientSends
    \/ CapsuleHandlesRequestNoFailure

SpecCapsuleNoFailure == CapsuleInit /\ [][CapsuleNoFailureNext]_vars

----------------------------------------------------------------------------
(* Claims about the capsule store *)

\* the capsule agent takes the request m off its mailbox in this step
CapsuleConsumes(m) ==
    /\ IsCapsuleRequest(m)
    /\ CopiesIn(m, net') < CopiesIn(m, net)

\* a text of this kind is sent to the client in this step
RepliedWith(kind) ==
    \E r \in BagToSet(inbox') :
        /\ CopiesIn(r, inbox') > CopiesIn(r, inbox)
        /\ r.type = "chat"
        /\ r.dst = ClientAddr
        /\ r.text[1].kind = kind

\* the reply to a list request in this step reports n capsules
ListReplied(n) ==
    \E r \in BagToSet(inbox') :
        /\ CopiesIn(r, inbox') > CopiesIn(r, inbox)
        /\ r.type = "chat"
        /\ r.text[1].kind = "capsule_list"
        /\ r.text[1].ref = <<ToString(n)>>

Readable(files, name) ==
    FileExists(files, name) /\ ReadJson(FileContent(files, name)) # <<>>

RetrievalCount(files, name) ==
    ReadJson(FileContent(files, name))[1].usage_stats.retrieval_count

NumReadable(files) ==
    Cardinality({i \in DOMAIN files : ReadJson(files[i].content) # <<>>})

\* a retrieve request for the capsule `name` is answered with the capsule in this step
RetrievedNow(name) ==
    /\ \E m \in BagToSet(net) :
          /\ CapsuleConsumes(m)
          /\ RequestAction(m) = "retrieve"
          /\ m.text # <<>>
          /\ m.text[1].ref = name
    /\ RepliedWith("capsule_retrieved")

\* C12: in one process, a successful retrieve of an existing capsule raises its
\* persisted retrieval_count by exactly 1, and no store, retrieve or list request
\* lowers the retrieval_count of an existing capsule.
C12_RetrievalCountNeverDecreases ==
    [][\A i \in DOMAIN capsule_files :
          LET name == capsule_files[i].name
          IN  Readable(capsule_files, name) =>
                 /\ Readable(capsule_files', name) =>
                        RetrievalCount(capsule_files', name) >=
                            RetrievalCount(capsule_files, name)
                 /\ RetrievedNow(name) =>
                        /\ Readable(capsule_files', name)
                        /\ RetrievalCount(capsule_files', name) =
                               RetrievalCount(capsule_files, name) + 1]_vars

EqualExceptUsageStats(a, b) == [a EXCEPT !.usage_stats = b.usage_stats] = b

ReadOnlyRequestNow ==
    \E m \in BagToSet(net) :
        /\ CapsuleConsumes(m)
        /\ \/ RequestAction(m) = "list"
           \/ /\ RequestAction(m) = "retrieve"
              /\ m.text # <<>>
              /\ ~FileExists(capsule_files, m.text[1].ref)

\* C38: a successful retrieve changes only usage_stats of the retrieved capsule
\* and the global total_retrievals; a list request and a retrieve of an unknown
\* id change no document and no counter; no request changes another field of an
\* existing capsule, or the document of a capsule it does not retrieve.
C38_WriteOnceFields ==
    [][/\ \A i \in DOMAIN capsule_files :
             LET name == capsule_files[i].name
             IN  Readable(capsule_files, name) =>
                    /\ Readable(capsule_files', name)
                    /\ EqualExceptUsageStats(
                           ReadJson(FileContent(capsule_files, name))[1],
                           ReadJson(FileContent(capsule_files', name))[1])
                    /\ ~RetrievedNow(name) =>
                           FileContent(capsule_files', name) =
                               FileContent(capsule_files, name)
       /\ ReadOnlyRequestNow =>
             /\ capsule_files' = capsule_files
             /\ capsule_stats' = capsule_stats
       /\ capsule_stats'.total_retrievals # capsule_stats.total_retrievals =>
             \E i \in DOMAIN capsule_files : RetrievedNow(capsule_files[i].name)]_vars

RECURSIVE TotalRetrievalCount(_)
TotalRetrievalCount(files) ==
    IF files = <<>> THEN 0
    ELSE ReadJson(Head(files).content)[1].usage_stats.retrieval_count
             + TotalRetrievalCount(Tail(files))

\* C39: in one process started on empty storage in which no file operation fails,
\* after any sequence of store, retrieve and list requests total_capsules is the
\* number of capsule documents and total_retrievals is the sum of their
\* retrieval_count.
C39_StatsMatchStore ==
    /\ capsule_stats.total_capsules = Len(capsule_files)
    /\ capsule_stats.total_retrievals = TotalRetrievalCount(capsule_files)

\* C16: when save_capsule fails, the document stored before under the same capsule
\* id, and every other document, is left as it was.
C16_FailedSaveLeavesPriorDocument ==
    [][RepliedWith("error_save") =>
          \A i \in DOMAIN capsule_files : capsule_files'[i] = capsule_files[i]]_vars

\* C17: the list reported by list_all_capsules has one summary for every readable
\* capsule document, whatever unreadable documents the directory holds.
C17_ListSkipsBadDocuments ==
    [][\A m \in BagToSet(net) :
          (CapsuleConsumes(m) /\ RequestAction(m) = "list") =>
              ListReplied(NumReadable(capsule_files))]_vars

\* C18: the number of vectors equals the number of metadata entries, in memory and
\* in the index and metadata files as load_faiss_index reads them.
C18_VectorsMatchMetadata ==
    /\ faiss_index # -1 => faiss_index = Len(capsule_metadata)
    /\ LET loaded == load_faiss_index(index_file, metadata_file)
       IN  loaded.faiss_index # -1 =>
               loaded.faiss_index = Len(loaded.capsule_metadata)

MissingChainOrProof(m) ==
    \/ m.meta = <<>>
    \/ LoadDocument(m.meta[1].reasoning_chain) = <<>>
    \/ LoadDocument(m.meta[1].validation_proof) = <<>>

\* C19: a store request without a reasoning chain or without a validation proof is
\* answered with an error text, and no capsule file, index entry, metadata entry or
\* stats value is written.
C19_MissingInputWritesNothing ==
    [][\A m \in BagToSet(net) :
          (CapsuleConsumes(m) /\ RequestAction(m) = "store" /\ MissingChainOrProof(m)) =>
              /\ RepliedWith("error_missing")
              /\ capsule_files' = capsule_files
              /\ capsule_stats' = capsule_stats
              /\ faiss_index' = faiss_index
              /\ capsule_metadata' = capsule_metadata
              /\ stats_file' = stats_file
              /\ index_file' = index_file
              /\ metadata_file' = metadata_file]_vars

\* a store request without a proof was refused while a capsule was already stored
C19_Witness ==
    /\ \E e \in cap_log : e.path = "store"
    /\ \E r \in BagToSet(inbox) :
          r.type = "chat" /\ r.dst = ClientAddr /\ r.text[1].kind = "error_missing"
    /\ capsule_stats.total_capsules = 1
    /\ Len(capsule_files) = 1

\* C20: the retrieve action answers 'capsule not found' exactly when no document
\* with the requested id exists; a retrieval that fails otherwise is answered
\* differently.
C20_NotFoundOnlyForUnknownId ==
    [][\A m \in BagToSet(net) :
          (CapsuleConsumes(m) /\ RequestAction(m) = "retrieve" /\ m.text # <<>>) =>
              (RepliedWith("capsule_not_found") <=>
                   ~FileExists(capsule_files, m.text[1].ref))]_vars

----------------------------------------------------------------------------
(* The capsule agent's choice of path: the same client, which also sends a  *)
(* complete store request under an action name the handler does not know.   *)
(* Of the file operations only the opening of the capsule file can fail.    *)

DispatchRequests ==
    CapsuleRequests \cup
    {ChatMessage(ClientAddr, CapsuleAddr, <<GoodChain.query>>,
                 <<[EmptyMeta EXCEPT !.reasoning_chain = <<json_dumps(GoodChain)>>,
                                     !.validation_proof = <<json_dumps(GoodProof)>>,
                                     !.action = "archive"]>>)}

DispatchClientSends ==
    /\ submitted < MaxRequests
    /\ ~\E m \in BagToSet(net) : IsCapsuleRequest(m)
    /\ submitted' = submitted + 1
    /\ \E m \in DispatchRequests : net' = net (+) SetToBag({m})
    /\ UNCHANGED <<capsule_configured, capsule_files, capsule_stats, faiss_index,
                   capsule_metadata, inbox, val_log, cap_log, handled>>
    /\ UNCHANGED <<consensus_vars, router_vars, disk_vars, store_vars, search_vars, reasoning_vars>>

DispatchHandlesRequest ==
    /\ handled' = handled + 1
    /\ \E m \in BagToSet(net), env \in PipelineEnvs :
          /\ IsCapsuleRequest(m)
          /\ CapsuleHandled(m, handle_capsule_request(m.src, m.text, m.meta,
                                                      CapsuleNow, env))
    /\ UNCHANGED <<capsule_configured, val_log, submitted>>
    /\ UNCHANGED <<consensus_vars, router_vars, store_vars, search_vars, reasoning_vars>>

DispatchNext ==
    \/ DispatchClientSends
    \/ DispatchHandlesRequest

SpecDispatch == CapsuleInit /\ [][DispatchNext]_vars

\* the kinds of text the three paths of the handler answer with
StoreReplies == {"error_missing", "error_save", "capsule_created"}
RetrieveReplies == {"capsule_retrieved", "capsule_not_found"}
ListReplies == {"capsule_list"}

\* a text of one of these kinds, and no other text, is sent to the client in this step
RepliedOnlyWith(kinds) ==
    /\ \E k \in kinds : RepliedWith(k)
    /\ \A k \in (StoreReplies \cup RetrieveReplies \cup ListReplies) \ kinds :
          ~RepliedWith(k)

\* C21: a message without an action key is handled as store; 'retrieve' runs only the
\* retrieve path and 'list' only the list path; every other action value is handled
\* as store.
C21_ActionDispatch ==
    [][\A m \in BagToSet(net) :
          CapsuleConsumes(m) =>
              LET a == IF m.meta = <<>> THEN None ELSE m.meta[1].action
              IN  /\ a = "retrieve" =>
                         /\ RepliedOnlyWith(RetrieveReplies)
                         /\ Len(capsule_files') = Len(capsule_files)
                         /\ capsule_stats'.total_capsules = capsule_stats.total_capsules
                         /\ <<faiss_index', capsule_metadata', index_file', metadata_file'>>
                                = <<faiss_index, capsule_metadata, index_file, metadata_file>>
                  /\ a = "list" =>
                         /\ RepliedOnlyWith(ListReplies)
                         /\ capsule_files' = capsule_files
                         /\ capsule_stats' = capsule_stats
                         /\ <<faiss_index', capsule_metadata', index_file', metadata_file',
                              stats_file'>>
                                = <<faiss_index, capsule_metadata, index_file, metadata_file,
                                    stats_file>>
                  /\ a \notin {"retrieve", "list"} =>
                         /\ RepliedOnlyWith(StoreReplies)
                         /\ capsule_stats'.total_retrievals =
                                capsule_stats.total_retrievals]_vars

\* a request whose action is neither store, retrieve nor list created a capsule, and a
\* request without an action key was refused on the store path
C21_Witness ==
    /\ \E e \in cap_log : e.action = "archive" /\ e.path = "store" /\ e.stored # <<>>
    /\ \E e \in cap_log : e.action = None /\ e.path = "store_missing"
    /\ \E r \in BagToSet(inbox) :
          r.type = "chat" /\ r.dst = ClientAddr /\ r.text[1].kind = "capsule_created"
    /\ capsule_stats.total_capsules = 1

----------------------------------------------------------------------------
(* Two capsule agent processes on one capsule directory, each calling       *)
(* retrieve_capsule for the same stored capsule.  A call is four steps: it  *)
(* loads the document, opens the file for writing (which empties it),       *)
(* dumps its updated copy, and saves its own stats.  Nothing locks the file *)
(* between the steps.                                                       *)

Procs == {1, 2}

\* the capsule both processes retrieve, and its file name
SharedCapsule == create_knowledge_capsule(GoodChain, GoodProof, "t1")
SharedId == SharedCapsule.capsule_id

\* load_stats at startup: every process has its own copy of the stats document
LoadedStats == [total_capsules |-> 1, total_retrievals |-> 0]

\* a variant that increments the count the file holds when it is opened for writing
capsule_to_write_Reread(loaded, on_disk, now) ==
    IF on_disk = <<>> THEN update_usage_stats(loaded, now)
    ELSE update_usage_stats(on_disk[1], now)

\* the document retrieve_capsule writes back: the copy it loaded, updated in memory,
\* whatever the file holds by the time it is opened for writing
capsule_to_write(loaded, on_disk, now) == update_usage_stats(loaded, now)

RaceInit ==
    /\ ConsensusIdle
    /\ RouterIdle
    /\ net = EmptyBag
    /\ capsule_configured = TRUE
    /\ capsule_files = <<[name |-> SharedId, content |-> json_dumps(SharedCapsule)]>>
    /\ capsule_stats = LoadedStats
    /\ faiss_index = -1
    /\ capsule_metadata = <<>>
    /\ inbox = EmptyBag
    /\ val_log = {}
    /\ cap_log = {}
    /\ submitted = 0
    /\ handled = 0
    /\ stats_file = <<LoadedStats>>
    /\ index_file = -1
    /\ metadata_file = << <<>> >>
    /\ id_args = <<>>
    /\ id_out = <<>>
    /\ search_args = <<>>
    /\ search_out = <<>>
    /\ research_log = {}
    /\ ReasoningIdle
    /\ proc = [p \in Procs |-> [pc |-> "idle", capsule |-> <<>>, read |-> -1,
                                stats |-> LoadedStats, retrievals |-> 0, failed |-> 0]]

RaceFrame ==
    /\ UNCHANGED <<consensus_vars, router_vars, id_args, id_out, search_vars,
                   reasoning_vars>>
    /\ UNCHANGED <<net, capsule_configured, capsule_stats, faiss_index, capsule_metadata,
                   inbox, val_log, cap_log, submitted, handled, index_file,
                   metadata_file>>

\* capsule_file.exists(), open(capsule_file, 'r'), json.load(f): a file that another
\* process has emptied and not yet written raises, and the call returns None
RetrieveLoad(p) ==
    /\ proc[p].pc = "idle"
    /\ proc[p].retrievals + proc[p].failed < MaxRetrievals
    /\ FileExists(capsule_files, SharedId)
    /\ LET loaded == ReadJson(FileContent(capsule_files, SharedId))
       IN  proc' = IF loaded = <<>>
                   THEN [proc EXCEPT ![p].failed = @ + 1]
                   ELSE [proc EXCEPT ![p].pc = "loaded", ![p].capsule = loaded,
                                     ![p].read = loaded[1].usage_stats.retrieval_count]
    /\ UNCHANGED <<capsule_files, stats_file>>
    /\ RaceFrame

\* the two usage_stats assignments, then open(capsule_file, 'w')
RetrieveOpen(p) ==
    /\ proc[p].pc = "loaded"
    /\ \E now \in Instants :
          proc' = [proc EXCEPT ![p].pc = "opened",
                               ![p].capsule =
                                   <<capsule_to_write(proc[p].capsule[1],
                                         ReadJson(FileContent(capsule_files, SharedId)),
                                         now)>>]
    /\ capsule_files' = PutFile(capsule_files, SharedId, MalformedJson)
    /\ UNCHANGED stats_file
    /\ RaceFrame

\* json.dump(capsule, f, indent=2) and the end of the with block
RetrieveDump(p) ==
    /\ proc[p].pc = "opened"
    /\ proc' = [proc EXCEPT ![p].pc = "dumped"]
    /\ capsule_files' = PutFile(capsule_files, SharedId, json_dumps(proc[p].capsule[1]))
    /\ UNCHANGED stats_file
    /\ RaceFrame

\* capsule_stats['total_retrievals'] += 1; save_stats(); return capsule
RetrieveSaveStats(p) ==
    /\ proc[p].pc = "dumped"
    /\ LET new_stats == [proc[p].stats EXCEPT !.total_retrievals = @ + 1]
       IN  /\ proc' = [proc EXCEPT ![p].pc = "idle", ![p].stats = new_stats,
                                   ![p].retrievals = @ + 1]
           /\ stats_file' = save_stats(stats_file, new_stats, "ok")
    /\ UNCHANGED capsule_files
    /\ RaceFrame

RaceNext ==
    \E p \in Procs :
        \/ RetrieveLoad(p)
        \/ RetrieveOpen(p)
        \/ RetrieveDump(p)
        \/ RetrieveSaveStats(p)

SpecRace == RaceInit /\ [][RaceNext]_vars

\* C13: retrieve_capsule is a read-modify-write without a lock: the count a process
\* writes is the count it read plus one, whatever has been written to the file since,
\* so two retrievals that both read n leave n+1 and one increment is lost.
C13_WritesCountItRead ==
    [][\A p \in Procs :
          (proc[p].pc = "opened" /\ proc'[p].pc = "dumped") =>
              /\ Readable(capsule_files', SharedId)
              /\ RetrievalCount(capsule_files', SharedId) = proc[p].read + 1]_vars

\* both processes have completed one retrieval, neither has failed, and the
\* persisted count is 1, not 2
C13_Witness ==
    /\ \A p \in Procs :
          /\ proc[p].pc = "idle"
          /\ proc[p].retrievals = 1
          /\ proc[p].failed = 0
    /\ Readable(capsule_files, SharedId)
    /\ RetrievalCount(capsule_files, SharedId) = 1

----------------------------------------------------------------------------
(* Research agent (research_agent.py): search_knowledge_capsules, on texts  *)
(* spelled out character by character.  The directory is the sequence of    *)
(* its files in the order they were stored; glob yields them in any order.  *)

SearchChars == {"a", "b", "A", " "}

\* str.lower()
lower(s) == [i \in DOMAIN s |-> IF s[i] = "A" THEN "a" ELSE s[i]]

\* str.split(): the maximal runs of characters other than whitespace
RECURSIVE split_from(_, _)
split_from(s, word) ==
    IF s = <<>> THEN (IF word = <<>> THEN <<>> ELSE <<word>>)
    ELSE IF Head(s) = " "
         THEN (IF word = <<>> THEN <<>> ELSE <<word>>) \o split_from(Tail(s), <<>>)
         ELSE split_from(Tail(s), Append(word, Head(s)))

split(s) == split_from(s, <<>>)

\* word in text, for strings
IsSubstring(word, text) ==
    \E i \in 0..(Len(text) - Len(word)) : SubSeq(text, i + 1, i + Len(word)) = word

\* f"{capsule.get('query', '')} {capsule.get('reasoning_steps', '')}
\*    {capsule.get('reasoning_type', '')}".lower()
searchable_text(capsule) ==
    lower(capsule.query \o <<" ">> \o capsule.reasoning_steps \o <<" ">>
          \o capsule.reasoning_type)

\* sum(1 for word in query_words if word in searchable_text)
count_matches(query_words, text) ==
    Cardinality({i \in DOMAIN query_words : IsSubstring(query_words[i], text)})

\* SIMILARITY_THRESHOLD, default 0.6, in hundredths
SIMILARITY_THRESHOLD == 60

\* a variant that accepts a capsule as soon as one query word matches
passes_threshold_AnyMatch(matches, words) == matches > 0

\* matches > 0 and matches / len(query_words) >= SIMILARITY_THRESHOLD
passes_threshold(matches, words) ==
    matches > 0 /\ matches * 100 >= SIMILARITY_THRESHOLD * words

\* similarities are fractions matches / words; a >= b
SimGeq(a, b) == a.matches * b.words >= b.matches * a.words

\* the entry appended to results for one capsule
search_result(capsule, matches, words) ==
    [capsule_id |-> capsule.capsule_id, query |-> capsule.query,
     reasoning_type |-> capsule.reasoning_type, content |-> capsule.reasoning_steps,
     confidence |-> capsule.confidence,
     similarity |-> [matches |-> matches, words |-> words],
     timestamp |-> capsule.created_at]

\* the for loop over capsule_files: a file that cannot be read is passed over
RECURSIVE collect_results(_, _, _)
collect_results(files, order, query_words) ==
    IF order = <<>> THEN <<>>
    ELSE LET loaded == ReadJson(files[Head(order)].content)
             rest == collect_results(files, Tail(order), query_words)
         IN  IF loaded = <<>> THEN rest
             ELSE LET matches == count_matches(query_words, searchable_text(loaded[1]))
                  IN  IF passes_threshold(matches, Len(query_words))
                      THEN <<search_result(loaded[1], matches, Len(query_words))>> \o rest
                      ELSE rest

\* list.sort(key=similarity, reverse=True): stable, equal keys keep their order
RECURSIVE insert_sorted(_, _)
insert_sorted(sorted, e) ==
    IF sorted = <<>> THEN <<e>>
    ELSE IF SimGeq(Head(sorted).similarity, e.similarity)
         THEN <<Head(sorted)>> \o insert_sorted(Tail(sorted), e)
         ELSE <<e>> \o sorted

RECURSIVE sort_by_similarity(_)
sort_by_similarity(results) ==
    IF results = <<>> THEN <<>>
    ELSE insert_sorted(sort_by_similarity(SubSeq(results, 1, Len(results) - 1)),
                       results[Len(results)])

\* results[:top_k]
TakeFirst(results, top_k) == SubSeq(results, 1, Min(top_k, Len(results)))

\* a variant that reports a placeholder when there is nothing to search
no_capsules_Placeholder(query) ==
    <<[capsule_id |-> <<"none">>, query |-> query, reasoning_type |-> <<>>, content |-> <<>>,
       confidence |-> 0, similarity |-> [matches |-> 0, words |-> 1],
       timestamp |-> None]>>

\* return [] when the directory is missing or holds no *.json file
no_capsules(query) == <<>>

search_knowledge_capsules(dir_exists, files, order, query, top_k) ==
    IF ~dir_exists THEN no_capsules(query)
    ELSE IF files = <<>> THEN no_capsules(query)
    ELSE TakeFirst(sort_by_similarity(collect_results(files, order,
                                                      split(lower(query)))),
                   top_k)

\* capsule documents as the search reads them
SearchDoc(id, query, steps, type, created) ==
    [capsule_id |-> id, query |-> query, reasoning_type |-> type,
     reasoning_steps |-> steps, confidence |-> 85, created_at |-> created]

\* the file contents a directory can hold: three capsules and an unreadable file
SearchContents ==
    {json_dumps(SearchDoc(<<"c1">>, <<"a">>, <<>>, <<>>, "t1")),
     json_dumps(SearchDoc(<<"c2">>, <<>>, <<>>, <<"b">>, "t1")),
     json_dumps(SearchDoc(<<"c3">>, <<>>, <<"A", "b">>, <<>>, "t2")),
     MalformedJson}

\* directories of n files with different contents, in the order they were stored
Directories(n) ==
    {d \in [1..n -> SearchContents] : \A i, j \in 1..n : i # j => d[i] # d[j]}

FilesOf(d) == [i \in DOMAIN d |-> [name |-> <<"f", ToString(i)>>, content |-> d[i]]]

SearchArgs ==
    [dir_exists : BOOLEAN,
     files : {FilesOf(d) : d \in UNION {Directories(n) : n \in 0..MaxStored}},
     query : UNION {[1..k -> SearchChars] : k \in 0..MaxQueryLen},
     top_k : {1, 5}]

SearchInit ==
    /\ ConsensusIdle
    /\ PipelineIdle
    /\ RouterIdle
    /\ DiskIdle
    /\ id_args = <<>>
    /\ id_out = <<>>
    /\ proc = <<>>
    /\ search_args \in {a \in SearchArgs : a.dir_exists \/ a.files = <<>>}
    /\ search_out = <<>>
    /\ research_log = {}
    /\ ReasoningIdle

\* one call; glob yields the files in any order
SearchKnowledgeCapsules ==
    /\ search_out = <<>>
    /\ \E order \in GlobOrders(Len(search_args.files)) :
          search_out' = <<[order |-> order,
                           results |-> search_knowledge_capsules(search_args.dir_exists,
                                           search_args.files, order, search_args.query,
                                           search_args.top_k)]>>
    /\ UNCHANGED <<consensus_vars, pipeline_vars, router_vars, disk_vars, store_vars,
                   search_args, research_log, reasoning_vars>>

SearchNext == SearchKnowledgeCapsules

SpecSearch == SearchInit /\ [][SearchNext]_vars

----------------------------------------------------------------------------
(* Claims about search_knowledge_capsules *)

\* the readable capsules of the directory with their overlap with the query:
\* the number of query words that occur in the searchable text, and the number of
\* query words
Overlaps ==
    LET words == split(lower(search_args.query))
    IN  {[capsule_id |-> ReadJson(search_args.files[i].content)[1].capsule_id,
          matches |-> count_matches(words,
                          searchable_text(ReadJson(search_args.files[i].content)[1])),
          words |-> Len(words)] :
            i \in {j \in DOMAIN search_args.files :
                      ReadJson(search_args.files[j].content) # <<>>}}

\* those whose ratio reaches the threshold
AboveThreshold ==
    {o \in Overlaps : o.words > 0 /\ o.matches * 100 >= SIMILARITY_THRESHOLD * o.words}

Returned == search_out[1].results

ReturnedIds == {Returned[i].capsule_id : i \in DOMAIN Returned}

\* C22: the capsules returned are the stored capsules whose overlap ratio is at least
\* SIMILARITY_THRESHOLD, cut to the top_k highest ratios; none below it is returned.
C22_ReturnsThoseAboveThreshold ==
    search_out # <<>> =>
        /\ ReturnedIds \subseteq {o.capsule_id : o \in AboveThreshold}
        /\ Len(Returned) = Min(search_args.top_k, Cardinality(AboveThreshold))
        /\ Cardinality(ReturnedIds) = Len(Returned)
        /\ \A i \in DOMAIN Returned :
              \E o \in AboveThreshold :
                  /\ o.capsule_id = Returned[i].capsule_id
                  /\ Returned[i].similarity = [matches |-> o.matches, words |-> o.words]
        /\ \A o \in AboveThreshold :
              o.capsule_id \notin ReturnedIds =>
                  \A i \in DOMAIN Returned : SimGeq(Returned[i].similarity, o)

\* of three query words one capsule has two and is returned, another has one and is not
C22_Witness ==
    /\ search_out # <<>>
    /\ Len(Returned) = 1
    /\ Returned[1].similarity = [matches |-> 2, words |-> 3]
    /\ \E o \in Overlaps : o.matches = 1 /\ o.words = 3
    /\ search_args.top_k = 5

\* C23: when no capsule is stored, because the directory is missing or empty, the
\* search returns the empty list for every query.
C23_EmptyStoreEmptyResult ==
    (search_out # <<>> /\ (~search_args.dir_exists \/ search_args.files = <<>>)) =>
        Returned = <<>>

\* no directory, a query of two words
C23_Witness ==
    /\ search_out # <<>>
    /\ ~search_args.dir_exists
    /\ Len(split(lower(search_args.query))) = 2
    /\ Returned = <<>>

\* the position of a capsule in the directory, in the order the files were stored
StoredAt(id) ==
    CHOOSE i \in DOMAIN search_args.files :
        /\ ReadJson(search_args.files[i].content) # <<>>
        /\ ReadJson(search_args.files[i].content)[1].capsule_id = id

\* C24: results are in descending order of similarity, and results of equal
\* similarity are in the order in which their capsules were stored.
C24_DescendingThenInsertionOrder ==
    search_out # <<>> =>
        \A i, j \in DOMAIN Returned :
            i < j =>
                /\ SimGeq(Returned[i].similarity, Returned[j].similarity)
                /\ SimGeq(Returned[j].similarity, Returned[i].similarity) =>
                       StoredAt(Returned[i].capsule_id) < StoredAt(Returned[j].capsule_id)

----------------------------------------------------------------------------
(* Reasoning agent (reasoning_agent.py): handle_chat_message.  Of the chain *)
(* it generates, the handler's choice depends on confidence and             *)
(* requires_validation only.                                                *)

\* the confidence parsed from the language model's answer, in hundredths
LlmConfidences == {50, 89, 90, 95}

\* generate_reasoning_chain: the type and the concepts are those the remote model
\* names for the query; "requires_validation": confidence < 0.9
generate_reasoning_chain(query, confidence) ==
    [query |-> query, reasoning_type |-> "causal", key_concepts |-> 1,
     reasoning_steps |-> GoodText,
     confidence |-> confidence, requires_validation |-> confidence < 90]

\* the reasoning_type of the fallback mode
fallback_reasoning_type(query) ==
    IF query_lower(query) \cap {"compare", "difference", "versus", "vs"} # {}
    THEN "comparative"
    ELSE IF query_lower(query) \cap {"explain", "how", "process"} # {} THEN "deductive"
    ELSE "causal"

\* the text the fallback mode writes: headings, numbered lines and bullet lines,
\* no connective and no conclusion
FallbackSteps(query) ==
    [GoodText EXCEPT !.found_keywords = 0, !.has_bullets = TRUE, !.has_references = TRUE,
                     !.has_conclusion = FALSE, !.has_process = FALSE, !.len = 600,
                     !.section_count = 7, !.words = query.words]

\* the chain built without MeTTa: 0.65 with research context, 0.4 without; the
\* sample queries have one word of more than four characters
fallback_reasoning_chain(query, context) ==
    [query |-> query, reasoning_type |-> fallback_reasoning_type(query),
     key_concepts |-> 1, reasoning_steps |-> FallbackSteps(query),
     confidence |-> IF context # None THEN 65 ELSE 40, requires_validation |-> TRUE]

\* format_reasoning_for_validation and the f-string of the fallback mode: the steps
\* of the chain inside a frame that names the query, the type and the concepts.  The
\* frame of format_reasoning_for_validation ends with four numbered questions, one
\* of which holds the word "conclusion".
validation_text(reasoning_chain, metta) ==
    [reasoning_chain.reasoning_steps EXCEPT
        !.kind = "reasoning_for_validation",
        !.len = @ + 200,
        !.has_numbers = @ \/ metta,
        !.has_conclusion = @ \/ metta,
        !.section_count = IF metta THEN @ + 4 ELSE @,
        !.why = "why" \in query_lower(reasoning_chain.query),
        !.how = "how" \in query_lower(reasoning_chain.query),
        !.words = reasoning_chain.query.words]

\* a variant without the loop check
from_validation_agent_Never(sender, cfg) == FALSE

\* if sender == VALIDATION_AGENT_ADDRESS: return
from_validation_agent(sender, cfg) == sender = cfg.validation_address

\* the whole handler: the messages it sends, in order, the session keys it leaves and
\* the chain it generated, if it got that far
reasoning_handle_chat_message(sender, text, meta, cfg, sessions, llm_confidence) ==
    LET ack == ChatAcknowledgement(ReasoningAddr, sender)
        session_id == IF meta = <<>> THEN None ELSE meta[1].session_id
        user_address == IF meta = <<>> THEN None ELSE meta[1].user_address
        context == IF meta = <<>> THEN None ELSE meta[1].research_context
        reasoning_chain == IF cfg.metta
                           THEN generate_reasoning_chain(text[1], llm_confidence)
                           ELSE fallback_reasoning_chain(text[1], context)
        validation_metadata ==
            [EmptyMeta EXCEPT !.reasoning_type = reasoning_chain.reasoning_type,
                              !.confidence = ToString(reasoning_chain.confidence),
                              !.session_id = session_id,
                              !.user_address = user_address]
        to_user(kind) ==
            IF user_address = None THEN <<>>
            ELSE <<create_text_message(ReasoningAddr, user_address, ReplyText(kind, <<>>))>>
    IN  IF from_validation_agent(sender, cfg) \/ text = <<>>
        THEN [sends |-> <<ack>>, sessions |-> sessions, chain |-> <<>>]
        ELSE [sends |->
                 <<ack>> \o
                 (IF reasoning_chain.requires_validation /\ cfg.validation_address # ""
                  THEN <<ChatMessage(ReasoningAddr, cfg.validation_address,
                                     <<validation_text(reasoning_chain, cfg.metta)>>,
                                     <<validation_metadata>>)>>
                       \o to_user("forwarding_to_validation")
                  ELSE to_user("high_confidence_validated")),
              sessions |-> IF session_id = None THEN sessions
                           ELSE sessions \cup {session_id},
              chain |-> <<reasoning_chain>>]

\* what the router, the research agent and the validation agent send to the
\* reasoning agent
ReasoningInputs ==
    {ChatMessage(src, ReasoningAddr, <<QueryText>>,
                 <<[EmptyMeta EXCEPT !.session_id = sid, !.user_address = u,
                                     !.research_context = rc]>>) :
        src \in {RouterAddr, ResearchAddr, ValidationAddr}, sid \in {None, "s1"},
        u \in {None, "user1"}, rc \in {None, "context"}}
    \cup {ChatMessage(RouterAddr, ReasoningAddr, <<QueryText>>, <<>>),
          ChatMessage(RouterAddr, ReasoningAddr, <<>>,
                      <<[EmptyMeta EXCEPT !.user_address = "user1"]>>),
          ChatMessage(ValidationAddr, ReasoningAddr,
                      <<ReplyText("validation_report", <<>>)>>, <<>>)}

ReasoningInit ==
    /\ ConsensusIdle
    /\ PipelineIdle
    /\ RouterIdle
    /\ DiskIdle
    /\ StoreIdle
    /\ reasoning_cfg \in [validation_address : {"", ValidationAddr}, metta : BOOLEAN]
    /\ reasoning_sessions = {}
    /\ reason_log = {}

ReasoningFrame ==
    /\ UNCHANGED <<capsule_configured, capsule_files, capsule_stats, faiss_index,
                   capsule_metadata, val_log, cap_log, reasoning_cfg>>
    /\ UNCHANGED <<consensus_vars, router_vars, disk_vars, store_vars, search_vars>>

AskReasoning ==
    /\ submitted < MaxAsked
    /\ submitted' = submitted + 1
    /\ \E m \in ReasoningInputs : net' = net (+) SetToBag({m})
    /\ UNCHANGED <<inbox, handled, reasoning_sessions, reason_log>>
    /\ ReasoningFrame

ReasoningHandleChatMessage ==
    /\ handled' = handled + 1
    /\ \E m \in BagToSet(net), llm_confidence \in LlmConfidences :
          /\ m.dst = ReasoningAddr
          /\ m.type = "chat"
          /\ LET o == reasoning_handle_chat_message(m.src, m.text, m.meta, reasoning_cfg,
                                                    reasoning_sessions, llm_confidence)
             IN  /\ Take(m, o.sends)
                 /\ reasoning_sessions' = o.sessions
                 /\ reason_log' =
                        IF o.chain = <<>>
                        THEN reason_log \cup
                                 {[sender |-> m.src, generated |-> FALSE,
                                   new_session |-> o.sessions # reasoning_sessions,
                                   sends |-> SendSummary(o.sends)]}
                        ELSE reason_log \cup
                                 {[sender |-> m.src, generated |-> TRUE,
                                   new_session |-> o.sessions # reasoning_sessions,
                                   chain |-> [o.chain[1] EXCEPT !.reasoning_steps = None],
                                   confidence |-> o.chain[1].confidence,
                                   requires_validation |-> o.chain[1].requires_validation,
                                   notification_only |->
                                       IF m.meta = <<>> THEN None
                                       ELSE m.meta[1].notification_only,
                                   user_address |-> IF m.meta = <<>> THEN None
                                                    ELSE m.meta[1].user_address,
                                   sends |-> SendSummary(o.sends)]}
    /\ UNCHANGED submitted
    /\ ReasoningFrame

ReasoningNext ==
    \/ AskReasoning
    \/ ReasoningHandleChatMessage

SpecReasoning == ReasoningInit /\ [][ReasoningNext]_vars

\* the runs of the handler that generated a chain
GeneratedRuns == {e \in reason_log : e.generated}

\* the run e sent the chain to the validation agent
SentToValidation(e) ==
    \E i \in DOMAIN e.sends : e.sends[i].dst = ValidationAddr /\ e.sends[i].type = "chat"

\* the run e answered the user directly with 'High confidence - validated'
AnsweredAsValidated(e) ==
    \E i \in DOMAIN e.sends : e.sends[i].kind = "high_confidence_validated"

\* C29: the reasoning agent answers a chain directly as validated, sending no
\* validation request, only when the chain's confidence is at least 0.9; every chain
\* of lower confidence is sent to the validation agent.
C29_BypassOnlyAtHighConfidence ==
    \A e \in GeneratedRuns :
        /\ (AnsweredAsValidated(e) \/ ~SentToValidation(e)) => e.confidence >= 90
        /\ e.confidence < 90 => SentToValidation(e)

\* C36: a ChatMessage whose sender is the configured validation agent is
\* acknowledged and then ignored: no session entry, no reasoning chain, and no
\* message other than the acknowledgement.
C36_ValidationSenderIgnored ==
    \A e \in reason_log :
        (reasoning_cfg.validation_address # "" /\ e.sender = reasoning_cfg.validation_address) =>
            /\ ~e.generated
            /\ ~e.new_session
            /\ Len(e.sends) = 1
            /\ e.sends[1].type = "ack"
            /\ e.sends[1].dst = e.sender

\* a message of the configured validation agent has been handled, and so has a
\* message of another agent that left a session and a chain
C36_Witness ==
    /\ reasoning_cfg.validation_address = ValidationAddr
    /\ \E e \in reason_log : e.sender = ValidationAddr /\ ~e.generated
    /\ \E e \in reason_log : e.sender = RouterAddr /\ e.generated /\ e.new_session

----------------------------------------------------------------------------
(* Query classification (query_router_agent.py): classify_query_with_asi_one *)
(* and fallback_classification.  A query text is known by the keywords that  *)
(* occur in it; the remote classifier by what requests.post does and by the  *)
(* status and the body of its response.                                      *)

LookupKeywords == {"find", "search", "lookup", "retrieve", "previous", "existing"}
ValidationKeywords == {"validate", "verify", "check", "review", "confirm"}
ReasoningKeywords == {"why", "how", "analyze", "compare", "explain", "reasoning"}

fallback_classification(query) ==
    IF query_lower(query) \cap LookupKeywords # {} THEN CAPSULE_LOOKUP
    ELSE IF query_lower(query) \cap ValidationKeywords # {} THEN VALIDATION_REQUEST
    ELSE IF query_lower(query) \cap ReasoningKeywords # {} THEN COMPLEX_REASONING
    ELSE SIMPLE_FACTUAL

\* result.get("classification", "").strip().lower() on the labels of the samples
strip_lower(label) ==
    CASE label = " Capsule_Lookup " -> "capsule_lookup"
      [] label = "Unknown" -> "unknown"
      [] OTHER -> label

\* the if / elif chain that maps the label to the enum; None when no branch matches
label_to_type(classification) ==
    CASE classification \in {"simple_factual", "simple factual"} -> SIMPLE_FACTUAL
      [] classification \in {"complex_reasoning", "complex reasoning"} -> COMPLEX_REASONING
      [] classification \in {"validation_request", "validation request"} -> VALIDATION_REQUEST
      [] classification \in {"capsule_lookup", "capsule lookup"} -> CAPSULE_LOOKUP
      [] OTHER -> None

\* a variant that trusts the label of a 200 response
classify_query_with_asi_one_TrustLabel(api_key, response, query) ==
    IF api_key = "" THEN fallback_classification(query)
    ELSE IF response.raised # None THEN fallback_classification(query)
    ELSE IF response.status_code = "200"
    THEN IF label_to_type(strip_lower(response.classification)) # None
         THEN label_to_type(strip_lower(response.classification))
         ELSE UNKNOWN
    ELSE fallback_classification(query)

\* response is what requests.post did: raised is the exception (None when it
\* returned), status_code and classification are those of the response
classify_query_with_asi_one(api_key, response, query) ==
    IF api_key = "" THEN fallback_classification(query)
    ELSE IF response.raised # None THEN fallback_classification(query)
    ELSE IF response.status_code = "200"
            /\ label_to_type(strip_lower(response.classification)) # None
    THEN label_to_type(strip_lower(response.classification))
    ELSE fallback_classification(query)

\* the remote classifier: a time-out, a refused connection, a body that is not
\* JSON, an error status, and 200 responses with known and unknown labels
RemoteResponses ==
    {[raised |-> "Timeout", status_code |-> None, classification |-> None],
     [raised |-> "JSONDecodeError", status_code |-> "200", classification |-> None],
     [raised |-> None, status_code |-> "500", classification |-> "simple_factual"],
     [raised |-> None, status_code |-> "200", classification |-> "simple_factual"],
     [raised |-> None, status_code |-> "200", classification |-> "validation request"],
     [raised |-> None, status_code |-> "200", classification |-> " Capsule_Lookup "],
     [raised |-> None, status_code |-> "200", classification |-> "Unknown"],
     [raised |-> None, status_code |-> "200", classification |-> ""]}

\* the queries users ask
ClassifyQueries ==
    {[QueryText EXCEPT !.words = ws] :
        ws \in {{}, {"Find"}, {"verify"}, {"WHY"}, {"verify", "WHY"}}}

ClassifyInit ==
    /\ ConsensusIdle
    /\ PipelineIdle
    /\ DiskIdle
    /\ StoreIdle
    /\ ReasoningIdle
    /\ agent_to_user_mapping = EmptyMapping
    /\ active_sessions = {}
    /\ running = TRUE
    /\ agent_addresses \in AddressConfigs
    /\ queries = 0
    /\ dispatch_log = <<>>
    /\ forward_log = <<>>
    /\ miss_log = <<>>
    /\ overlapped = {}
    /\ asi_one_api_key \in {"", "key"}
    /\ classify_log = {}

ClassifyFrame ==
    /\ UNCHANGED <<capsule_configured, capsule_files, capsule_stats, faiss_index,
                   capsule_metadata, val_log, cap_log, submitted, handled>>
    /\ UNCHANGED <<consensus_vars, disk_vars, store_vars, search_vars, reasoning_vars>>
    /\ UNCHANGED <<running, agent_addresses, dispatch_log, forward_log, miss_log,
                   overlapped, asi_one_api_key>>

UserAsks ==
    /\ queries < MaxClassified
    /\ queries' = queries + 1
    /\ \E u \in Users : \E q \in ClassifyQueries :
          net' = net (+) SetToBag({ChatMessage(u, RouterAddr, <<q>>, <<>>)})
    /\ UNCHANGED <<inbox, agent_to_user_mapping, active_sessions, classify_log>>
    /\ ClassifyFrame

\* handle_chat_message of the router for a user's query
ClassifyHandleChatMessage ==
    /\ \E m \in BagToSet(net), response \in RemoteResponses :
          /\ m.dst = RouterAddr
          /\ m.type = "chat"
          /\ m.text # <<>>
          /\ LET query_type == classify_query_with_asi_one(asi_one_api_key, response,
                                                           m.text[1])
                 o == router_handle_chat_message(m.src, m, agent_to_user_mapping,
                                                 active_sessions, agent_addresses,
                                                 query_type)
             IN  /\ Take(m, o.sends)
                 /\ agent_to_user_mapping' = o.mapping
                 /\ active_sessions' = o.sessions
                 /\ classify_log' = classify_log \cup
                        {[user |-> m.src, query |-> m.text[1], response |-> response,
                          query_type |-> query_type, sends |-> SendSummary(o.sends)]}
    /\ UNCHANGED queries
    /\ ClassifyFrame

ClassifyNext ==
    \/ UserAsks
    \/ ClassifyHandleChatMessage

SpecClassify == ClassifyInit /\ [][ClassifyNext]_vars

\* the remote classifier gave no usable label for the run e
RemoteUnusable(e) ==
    \/ asi_one_api_key = ""
    \/ e.response.raised # None
    \/ e.response.status_code # "200"
    \/ e.response.classification \in {"Unknown", ""}

\* the run e sent the query on to a worker
Dispatched(e) ==
    \E i \in DOMAIN e.sends : e.sends[i].dst \in WorkerAddrs /\ e.sends[i].type = "chat"

\* the run e told the user that the worker is not available
AnsweredNotAvailable(e) ==
    \E i \in DOMAIN e.sends : e.sends[i].dst = e.user /\ e.sends[i].kind = "not_available"

\* C30: when the remote classifier is unconfigured, times out, returns a non-200
\* status or an unrecognised label, the query gets the rule-based fallback result;
\* the result is always one of the four query types, never UNKNOWN, and every user
\* query is either dispatched to a worker or answered with 'not available'.
C30_ClassificationNeverFails ==
    \A e \in classify_log :
        /\ RemoteUnusable(e) => e.query_type = fallback_classification(e.query)
        /\ e.query_type \in {SIMPLE_FACTUAL, COMPLEX_REASONING, VALIDATION_REQUEST,
                             CAPSULE_LOOKUP}
        /\ Dispatched(e) \/ AnsweredNotAvailable(e)
        /\ \A i \in DOMAIN e.sends : e.sends[i].kind # "unable_to_classify"

\* an unknown label on a 200 response was replaced by the fallback result and the
\* query dispatched, and a query classified after a time-out was answered with
\* 'not available'
C30_Witness ==
    /\ asi_one_api_key # ""
    /\ \E e \in classify_log :
          /\ e.response.raised = None
          /\ e.response.status_code = "200"
          /\ e.response.classification = "Unknown"
          /\ e.query_type = COMPLEX_REASONING
          /\ Dispatched(e)
    /\ \E e \in classify_log :
          /\ e.response.raised = "Timeout"
          /\ e.query_type = VALIDATION_REQUEST
          /\ AnsweredNotAvailable(e)
          /\ ~Dispatched(e)

----------------------------------------------------------------------------
(* The five agents together.  A user's query reaches the router, which      *)
(* classifies it and sends it to a worker; the research agent answers and   *)
(* notifies the reasoning agent; the reasoning agent sends its chain to the *)
(* validation agent, which sends verified chains to the capsule agent.      *)
(* Every agent is deployed with the addresses of the others.                *)

\* format_research_context: headings and bullet lines around what was found
ResearchContextText == ReplyText("research_context", <<>>)

\* a variant that answers before it acknowledges
research_handle_chat_message_AnswerFirst(sender, text, reasoning_address) ==
    <<create_text_message(ResearchAddr, sender, ResearchContextText),
      ChatAcknowledgement(ResearchAddr, sender)>>

\* handle_chat_message of the research agent; reasoning_address is its
\* REASONING_AGENT_ADDRESS
research_handle_chat_message(sender, text, reasoning_address) ==
    LET ack == ChatAcknowledgement(ResearchAddr, sender)
        notification ==
            ChatMessage(ResearchAddr, reasoning_address, text,
                        <<[EmptyMeta EXCEPT !.research_context = "context",
                                            !.original_sender = sender,
                                            !.notification_only = "true"]>>)
    IN  IF text = <<>> \/ text[1].len = 0
        THEN <<ack, create_text_message(ResearchAddr, sender, ErrorText("error_no_query"))>>
        ELSE <<ack, create_text_message(ResearchAddr, sender, ResearchContextText)>>
             \o (IF reasoning_address # "" /\ sender # reasoning_address
                 THEN <<notification>> ELSE <<>>)

SystemInit ==
    /\ ConsensusIdle
    /\ PipelineIdle
    /\ DiskIdle
    /\ StoreIdle
    /\ agent_to_user_mapping = EmptyMapping
    /\ active_sessions = {}
    /\ running = TRUE
    /\ agent_addresses = AllConfigured
    /\ queries = 0
    /\ dispatch_log = <<>>
    /\ forward_log = <<>>
    /\ miss_log = <<>>
    /\ overlapped = {}
    /\ asi_one_api_key \in {"", "key"}
    /\ classify_log = {}
    /\ reasoning_cfg \in [validation_address : {"", ValidationAddr}, metta : BOOLEAN]
    /\ reasoning_sessions = {}
    /\ reason_log = {}

UserSendsQuery ==
    /\ queries < MaxFlows
    /\ queries' = queries + 1
    /\ \E q \in ClassifyQueries :
          net' = net (+) SetToBag({ChatMessage("user1", RouterAddr, <<q>>, <<>>)})
    /\ UNCHANGED <<inbox, agent_to_user_mapping, active_sessions, classify_log>>
    /\ ClassifyFrame

\* handle_chat_message of the router: a user's query or a worker's response
SystemRouterHandleChatMessage ==
    /\ \E m \in BagToSet(net), response \in RemoteResponses :
          /\ m.dst = RouterAddr
          /\ m.type = "chat"
          /\ m.text # <<>>
          /\ LET query_type == classify_query_with_asi_one(asi_one_api_key, response,
                                                           m.text[1])
                 o == router_handle_chat_message(m.src, m, agent_to_user_mapping,
                                                 active_sessions, agent_addresses,
                                                 query_type)
             IN  /\ Take(m, o.sends)
                 /\ agent_to_user_mapping' = o.mapping
                 /\ active_sessions' = o.sessions
                 /\ classify_log' = classify_log \cup
                        {[sender |-> m.src, path |-> o.path,
                          sends |-> SendSummary(o.sends)]}
    /\ UNCHANGED queries
    /\ ClassifyFrame

ResearchHandleChatMessage ==
    /\ \E m \in BagToSet(net) :
          /\ m.dst = ResearchAddr
          /\ m.type = "chat"
          /\ LET sends == research_handle_chat_message(m.src, m.text,
                                                       agent_addresses["reasoning"])
             IN  /\ Take(m, sends)
                 /\ research_log' = research_log \cup
                        {[sender |-> m.src, sends |-> SendSummary(sends)]}
    /\ UNCHANGED <<capsule_configured, capsule_files, capsule_stats, faiss_index,
                   capsule_metadata, val_log, cap_log, submitted, handled>>
    /\ UNCHANGED <<consensus_vars, router_vars, disk_vars, store_vars, search_args,
                   search_out, reasoning_vars>>

SystemNext ==
    \/ UserSendsQuery
    \/ SystemRouterHandleChatMessage
    \/ ResearchHandleChatMessage
    \/ ReasoningHandleChatMessage
    \/ HandleValidationRequest
    \/ HandleCapsuleRequest
    \/ HandleAcknowledgement

SpecSystem == SystemInit /\ [][SystemNext]_vars

----------------------------------------------------------------------------
(* Claims about the agents together *)

\* the chain inside the stored capsule has the query, the type, the concepts and the
\* confidence of the generated chain g
SameChain(g, stored_chain) ==
    /\ stored_chain.query = g.query
    /\ stored_chain.reasoning_type = g.reasoning_type
    /\ stored_chain.key_concepts = g.key_concepts
    /\ stored_chain.confidence = g.confidence

\* C32: the chain embedded in a capsule stored for a request of the reasoning agent
\* is a chain the reasoning agent generated: same query, reasoning_type,
\* key_concepts and confidence.
C32_CapsuleHoldsGeneratedChain ==
    \A e \in cap_log :
        (e.path = "store" /\ e.original_sender = ReasoningAddr) =>
            \E r \in GeneratedRuns : SameChain(r.chain, e.capsule[1].reasoning_chain)

\* C33: a query the router sends to the capsule agent is handled on the retrieve
\* path or the list path and is never answered with the missing-input error.
C33_LookupIsRetrieval ==
    \A e \in cap_log :
        e.sender = RouterAddr =>
            /\ e.path \in {"retrieve", "list"}
            /\ \A i \in DOMAIN e.sends : e.sends[i].kind # "error_missing"

\* the router sent every query it has classified to the research agent
OnlyResearchQueries ==
    \A e \in classify_log :
        e.path = "query" =>
            \E i \in DOMAIN e.sends :
                e.sends[i].dst = ResearchAddr /\ e.sends[i].type = "chat"

\* C34: a notification of the research agent (notification_only = "true") never
\* makes the reasoning agent send a validation request, and while the router has
\* sent queries to the research agent only, no capsule is created.
C34_NotificationOnlyTracks ==
    /\ \A r \in GeneratedRuns : r.notification_only = "true" => ~SentToValidation(r)
    /\ OnlyResearchQueries => Len(capsule_files) = 0

\* the first message of the run is the acknowledgement to the sender and the run
\* sends no other acknowledgement
AcknowledgedOnceFirst(e) ==
    /\ Len(e.sends) >= 1
    /\ e.sends[1].type = "ack"
    /\ e.sends[1].dst = e.sender
    /\ \A i \in 2..Len(e.sends) : e.sends[i].type # "ack"

\* a step that takes an acknowledgement from the network sends nothing
AcknowledgementSilent ==
    \A a \in BagToSet(net) :
        (a.type = "ack" /\ CopiesIn(a, net') < CopiesIn(a, net)) =>
            /\ net' = net (-) SetToBag({a})
            /\ inbox' = inbox

\* C35: in the router, reasoning, research, validation and capsule agents, every
\* received ChatMessage is acknowledged exactly once to its sender, the
\* acknowledgement is the first message the handler sends, and a received
\* ChatAcknowledgement triggers no outgoing message.
C35_AcknowledgedOnceFirst ==
    /\ [](\A e \in classify_log \cup research_log \cup reason_log \cup val_log \cup cap_log :
             AcknowledgedOnceFirst(e))
    /\ [][AcknowledgementSilent]_vars

\* each of the five agents has handled a ChatMessage, and every acknowledgement sent
\* to an agent has been taken
C35_Witness ==
    /\ classify_log # {}
    /\ research_log # {}
    /\ reason_log # {}
    /\ val_log # {}
    /\ cap_log # {}
    /\ \A m \in BagToSet(net) : m.type # "ack"

====
